---------------------------- MODULE Spec2Model ----------------------------
(***************************************************************************)
(* Model of the client-side synchronization engine of the design checklist *)
(* application: the CloudStorage component (local store, remote store      *)
(* client, sync status, debounce) and the AuthProvider it consumes.        *)
(*                                                                         *)
(* JavaScript values are modelled as tagged records, strings held in       *)
(* localStorage as sequences of tokens, the empty sequence standing for    *)
(* both a missing entry (getItem -> null) and the empty string: every read *)
(* in the code treats the two alike.                                       *)
(***************************************************************************)
EXTENDS Integers, Sequences, FiniteSets, TLC

(***************************************************************************)
(* Bounds of the model.                                                    *)
(***************************************************************************)
MaxInFlight == 2
MaxResets == 2

ItemOrder == <<"a", "b">>
ItemIds == {ItemOrder[i] : i \in 1..Len(ItemOrder)}
ToggleIds == {"a"}
Times == {"t1"}
Endpoints == {"", "https://e1"}
GoogleUserId == "g1"
DemoUserIds == {"demo_user_1"}
UserIds == {GoogleUserId} \cup DemoUserIds
Tokens == {"tok1"}

(***************************************************************************)
(* JavaScript values.                                                      *)
(***************************************************************************)
Null == [t |-> "null"]
Obj(f) == [t |-> "obj", v |-> f]
Str(s) == [t |-> "str", v |-> s]
EmptySnapshot == [k \in {} |-> TRUE]
Snapshots == UNION {[S -> BOOLEAN] : S \in SUBSET ItemIds}
Truthy(x) == x.t \in {"obj", "date"} \/ (x.t = "str" /\ x.v # "")
KeysLength(x) == IF x.t = "obj" THEN Cardinality(DOMAIN x.v) ELSE 0

(***************************************************************************)
(* JSON.stringify / JSON.parse on snapshots.                               *)
(***************************************************************************)
RECURSIVE StringifyEntries(_, _)
StringifyEntries(f, i) ==
    IF i > Len(ItemOrder) THEN <<>>
    ELSE IF ItemOrder[i] \in DOMAIN f
         THEN <<ItemOrder[i], IF f[ItemOrder[i]] THEN "true" ELSE "false">>
              \o StringifyEntries(f, i + 1)
         ELSE StringifyEntries(f, i + 1)

Stringify(x) ==
    IF x.t = "obj" THEN <<"{">> \o StringifyEntries(x.v, 1) \o <<"}">>
    ELSE <<"null">>

JsonValues == {Null} \cup {Obj(f) : f \in Snapshots}
CanParse(s) == \E x \in JsonValues : Stringify(x) = s
Parse(s) == CHOOSE x \in JsonValues : Stringify(x) = s
Corrupt == <<"{">>


(***************************************************************************)
(* Identities, storage keys, messages, network responses.                  *)
(***************************************************************************)
Email(id) == IF id \in DemoUserIds THEN "demo@designchecklist.com" ELSE "g1@gmail.com"
GoogleUser(id) == [t |-> "obj", id |-> id, email |-> Email(id)]
Users == {GoogleUser(id) : id \in UserIds}
StringifyUser(u) == <<"{", "id", u.id, "email", u.email, "}">>
CanParseUser(s) == \E u \in Users : StringifyUser(u) = s
ParseUser(s) == CHOOSE u \in Users : StringifyUser(u) = s

Name(id) == IF id \in DemoUserIds THEN "Demo User" ELSE "G One"
GivenName(id) == IF id \in DemoUserIds THEN "Demo" ELSE "G"

Date(t) == [t |-> "date", v |-> t]
ToISOString(t) == <<t>>

EndpointKey == <<"checklist-endpoint">>
AutoSyncKey == <<"checklist-auto-sync">>
TokenKey == <<"google-access-token">>
GoogleUserKey == <<"google-user">>
DemoUserKey == <<"demo-google-user">>

getStorageKey(u, suffix) ==
    IF Truthy(u) THEN <<"checklist", u.id, suffix>> ELSE <<"checklist", suffix>>

\* the key ChecklistApp saves under
ChecklistDataKey(id) == <<"checklist-data", id>>

LSKeys ==
    {EndpointKey, AutoSyncKey, TokenKey, GoogleUserKey, DemoUserKey}
    \cup {getStorageKey(u, sfx) : u \in Users \cup {Null}, sfx \in {"data", "last-modified"}}
    \cup {ChecklistDataKey(id) : id \in UserIds}

NotConfiguredMsg == Str("Cloud storage not configured or user not authenticated")
NoTokenMsg == Str("No access token available. Please sign in again.")
AuthExpiredMsg == Str("Authentication expired. Please sign out and sign in again.")
HttpErrorMsg(status) == [t |-> "str", v |-> "HTTP error! status: ", status |-> status]
NetworkErrorMsg == Str("Failed to fetch")
ImportErrorMsg == Str("Invalid backup file format")

RemoteData == {Null, Obj(EmptySnapshot), Obj("b" :> TRUE)}
NetworkFailure == [status |-> 0, data |-> Null]
HttpResponse(status, d) == [status |-> status, data |-> d]
ResponseOk(resp) == resp.status >= 200 /\ resp.status <= 299
SaveResponses ==
    {HttpResponse(s, Null) : s \in {200, 401, 403, 500}} \cup {NetworkFailure}
LoadResponses ==
    {HttpResponse(200, d) : d \in RemoteData}
    \cup {HttpResponse(s, Null) : s \in {401, 403, 500}} \cup {NetworkFailure}

SetItemOutcomes(q) == IF q = "available" THEN {"ok"} ELSE {"ok", "throw1", "throw2"}

(***************************************************************************)
(* State.                                                                  *)
(***************************************************************************)
VARIABLES
    isFigmaSite,        \* AuthProvider: window.location.origin is a Figma/localhost origin
    isLoading,          \* AuthProvider: true until its mount effect has run
    user,               \* AuthProvider: the signed-in identity or null
    isDemo,             \* AuthProvider
    signInTimer,        \* AuthProvider: a setTimeout(() => signIn(), 100) is pending
    localStorage,       \* the browser's localStorage
    quota,              \* environment: whether localStorage.setItem can throw
    data,               \* the snapshot held by the parent and passed as a prop
    config,             \* CloudStorage: StorageConfig state
    isConfigDialogOpen, \* CloudStorage
    syncStatus,         \* CloudStorage
    lastSync,           \* CloudStorage
    error,              \* CloudStorage
    timers,             \* the setTimeout timers of the auto-sync effect still pending
    syncTimeout,        \* the timer id the effect's cleanup will clear, 0 for none
    inflight,           \* fetches issued and not yet settled, oldest first
    download,           \* the file last handed to the browser by an export, <<>> for none
    reader,             \* the FileReader of an import still reading, <<>> for none
    unhandled,          \* the last step rejected a promise that has no handler
    checklists,         \* ChecklistApp: the checked state of each item
    saveStatus,         \* ChecklistApp: the save indicator
    saveTimeout,        \* ChecklistApp: the pending 1 s auto-save timer, <<>> for none
    resetTimeouts,      \* ChecklistApp: the 2 s timers pending that set the indicator idle
    event,              \* remote: the request a function is handling, <<>> for none
    response,           \* remote: the response last returned, <<>> for none
    remote              \* remote: the record stored for each user id

authVars == <<isFigmaSite, isLoading, user, isDemo, signInTimer>>
serverVars == <<event, response, remote>>
appVars == <<checklists, saveStatus, saveTimeout, resetTimeouts>>
clientVars == <<isFigmaSite, isLoading, user, isDemo, signInTimer, localStorage, quota,
                data, config, isConfigDialogOpen, syncStatus, lastSync, error,
                timers, syncTimeout, inflight, download, reader, unhandled,
                checklists, saveStatus, saveTimeout, resetTimeouts>>
vars == <<isFigmaSite, isLoading, user, isDemo, signInTimer, localStorage, quota,
          data, config, isConfigDialogOpen, syncStatus, lastSync, error,
          timers, syncTimeout, inflight, download, reader, unhandled,
          checklists, saveStatus, saveTimeout, resetTimeouts,
          event, response, remote>>

isAuthenticated == Truthy(user)

(***************************************************************************)
(* The part of the state the CloudStorage helpers read and write, as a     *)
(* record the helpers transform.                                           *)
(***************************************************************************)
Cur ==
    [localStorage |-> localStorage, syncStatus |-> syncStatus, lastSync |-> lastSync,
     error |-> error, inflight |-> inflight, data |-> data, loaded |-> FALSE,
     thrown |-> Null, unhandled |-> FALSE, assigned |-> <<>>]

\* assigned lists the statuses a handler sets, in order, within one step
updateSyncStatus(st, status, now) ==
    [st EXCEPT !.syncStatus = status,
               !.assigned = Append(@, status),
               !.lastSync = IF status = "synced" THEN Date(now) ELSE @,
               !.error = IF status = "synced" THEN Null ELSE @]

setError(st, msg) == [st EXCEPT !.error = msg]

\* the parent's onDataLoad: it replaces the snapshot it holds
onDataLoad(st, d) == [st EXCEPT !.data = d, !.loaded = TRUE]

saveToLocal(st, u, d, now, outcome) ==
    LET ls1 == IF outcome = "throw1" THEN st.localStorage
               ELSE [st.localStorage EXCEPT ![getStorageKey(u, "data")] = Stringify(d)]
        ls2 == IF outcome = "ok"
               THEN [ls1 EXCEPT ![getStorageKey(u, "last-modified")] = ToISOString(now)]
               ELSE ls1
    IN  [st EXCEPT !.localStorage = ls2]

\* a loadFromLocal that shows an empty checklist for a record it cannot read
loadFromLocalDefaulting(st, u) ==
    LET savedData == st.localStorage[getStorageKey(u, "data")]
    IN  IF savedData # <<>> /\ CanParse(savedData)
        THEN onDataLoad(st, Parse(savedData))
        ELSE onDataLoad(st, Obj(EmptySnapshot))

loadFromLocal(st, u) ==
    LET savedData == st.localStorage[getStorageKey(u, "data")]
    IN  IF savedData # <<>> /\ CanParse(savedData)
        THEN onDataLoad(st, Parse(savedData))
        ELSE st


(***************************************************************************)
(* Remote store client.  A call either throws before the fetch or issues   *)
(* the request; the continuation runs when the fetch settles.              *)
(***************************************************************************)
SaveRequest(cfg, u, d, token, now) ==
    [kind |-> "save", method |-> "POST", endpoint |-> cfg.endpoint,
     authorization |-> <<"Bearer">> \o token,
     userId |-> u.id, userEmail |-> u.email, data |-> d, timestamp |-> ToISOString(now)]

LoadRequest(cfg, u, token) ==
    [kind |-> "load", method |-> "GET", endpoint |-> cfg.endpoint,
     authorization |-> <<"Bearer">> \o token, userId |-> u.id]

Pending(req, via, u) == [req |-> req, via |-> via, user |-> u]

\* a reading of the save response that knows no authentication failure
SaveResponseErrorGeneric(resp) ==
    IF resp.status = 0 THEN NetworkErrorMsg
    ELSE HttpErrorMsg(resp.status)

SaveResponseError(resp) ==
    IF resp.status = 0 THEN NetworkErrorMsg
    ELSE IF resp.status = 401 THEN AuthExpiredMsg
    ELSE HttpErrorMsg(resp.status)

LoadResponseError(resp) ==
    IF resp.status = 0 THEN NetworkErrorMsg
    ELSE IF resp.status = 401 THEN AuthExpiredMsg
    ELSE HttpErrorMsg(resp.status)

\* a saveToCloud that sends the request whether or not a token is stored
saveToCloudAnonymous(st, d, cfg, u, now) ==
    IF cfg.endpoint = "" \/ ~Truthy(u)
    THEN [st EXCEPT !.thrown = NotConfiguredMsg]
    ELSE [st EXCEPT !.inflight =
              Append(@, Pending(SaveRequest(cfg, u, d, st.localStorage[TokenKey], now),
                                "handleSync", u))]

\* saveToCloud up to its await
saveToCloud(st, d, cfg, u, now) ==
    IF cfg.endpoint = "" \/ ~Truthy(u)
    THEN [st EXCEPT !.thrown = NotConfiguredMsg]
    ELSE LET accessToken == st.localStorage[TokenKey]
         IN  IF accessToken = <<>>
             THEN [st EXCEPT !.thrown = NoTokenMsg]
             ELSE [st EXCEPT !.inflight =
                       Append(@, Pending(SaveRequest(cfg, u, d, accessToken, now),
                                         "handleSync", u))]

\* loadFromCloud up to its await
loadFromCloud(st, cfg, u, now, via) ==
    IF cfg.endpoint = "" \/ ~Truthy(u)
    THEN [st EXCEPT !.thrown = NotConfiguredMsg]
    ELSE LET s1 == updateSyncStatus(st, "syncing", now)
             accessToken == s1.localStorage[TokenKey]
         IN  IF accessToken = <<>>
             THEN [updateSyncStatus(s1, "offline", now) EXCEPT !.thrown = NoTokenMsg]
             ELSE [s1 EXCEPT !.inflight =
                       Append(@, Pending(LoadRequest(cfg, u, accessToken), via, u))]

\* a catch block of handleSync that also discards the cached snapshots
handleSyncCatchRollback(st, now) ==
    updateSyncStatus(
        setError([st EXCEPT !.thrown = Null,
                            !.localStorage =
                                [k \in LSKeys |->
                                    IF k[Len(k)] \in {"data", "last-modified"}
                                    THEN <<>> ELSE st.localStorage[k]]],
                 st.thrown),
        "error", now)

\* the catch block of handleSync
handleSyncCatch(st, now) ==
    updateSyncStatus(setError([st EXCEPT !.thrown = Null], st.thrown), "error", now)

\* a catch block of handleCloudLoad that also resets the snapshot shown
handleCloudLoadCatchReset(st, now) ==
    updateSyncStatus(
        setError([st EXCEPT !.thrown = Null, !.data = Obj(EmptySnapshot)], st.thrown),
        "error", now)

\* the catch block of handleCloudLoad
handleCloudLoadCatch(st, now) ==
    updateSyncStatus(setError([st EXCEPT !.thrown = Null], st.thrown), "error", now)

\* a handleSync that calls saveToCloud whether or not an endpoint is set
handleSyncNoEndpointCheck(st, d, cfg, u, now, outcome) ==
    IF ~Truthy(d) \/ ~Truthy(u) THEN st
    ELSE LET s1 == updateSyncStatus(st, "syncing", now)
             s2 == saveToLocal(s1, u, d, now, outcome)
             s3 == saveToCloud(s2, d, cfg, u, now)
         IN  IF Truthy(s3.thrown) THEN handleSyncCatch(s3, now) ELSE s3

\* a handleSync that writes locally only when no cloud endpoint is configured
handleSyncCloudFirst(st, d, cfg, u, now, outcome) ==
    IF ~Truthy(d) \/ ~Truthy(u) THEN st
    ELSE LET s1 == updateSyncStatus(st, "syncing", now)
         IN  IF cfg.endpoint # ""
             THEN LET s3 == saveToCloud(s1, d, cfg, u, now)
                  IN  IF Truthy(s3.thrown) THEN handleSyncCatch(s3, now) ELSE s3
             ELSE updateSyncStatus(saveToLocal(s1, u, d, now, outcome), "offline", now)

\* handleSync up to its await; d, cfg, u are the values its closure holds
handleSync(st, d, cfg, u, now, outcome) ==
    IF ~Truthy(d) \/ ~Truthy(u) THEN st
    ELSE LET s1 == updateSyncStatus(st, "syncing", now)
             s2 == saveToLocal(s1, u, d, now, outcome)
         IN  IF cfg.endpoint # ""
             THEN LET s3 == saveToCloud(s2, d, cfg, u, now)
                  IN  IF Truthy(s3.thrown) THEN handleSyncCatch(s3, now) ELSE s3
             ELSE updateSyncStatus(s2, "offline", now)

\* a handleSync whose continuation gives way to an operation that settled
\* the status while it was waiting
handleSyncSettledGuarded(st, resp, now) ==
    IF st.syncStatus # "syncing" THEN st
    ELSE IF ResponseOk(resp)
    THEN updateSyncStatus(st, "synced", now)
    ELSE handleSyncCatch([st EXCEPT !.thrown = SaveResponseError(resp)], now)

\* handleSync after its await
handleSyncSettled(st, resp, now) ==
    IF ResponseOk(resp)
    THEN updateSyncStatus(st, "synced", now)
    ELSE handleSyncCatch([st EXCEPT !.thrown = SaveResponseError(resp)], now)

\* handleCloudLoad up to its await
handleCloudLoad(st, cfg, u, now) ==
    IF ~Truthy(u) THEN st
    ELSE LET s1 == updateSyncStatus(st, "syncing", now)
             s2 == loadFromCloud(s1, cfg, u, now, "handleCloudLoad")
         IN  IF Truthy(s2.thrown) THEN handleCloudLoadCatch(s2, now) ELSE s2

\* loadFromCloud after its await: the value it returns, or what it throws
loadFromCloudSettled(st, resp, now) ==
    IF ResponseOk(resp)
    THEN st
    ELSE [updateSyncStatus(st, "offline", now) EXCEPT !.thrown = LoadResponseError(resp)]

\* a handleCloudLoad that merges the remote snapshot into the local one
handleCloudLoadSettledMerge(st, resp, u, now, outcome) ==
    LET s1 == loadFromCloudSettled(st, resp, now)
        cloudData == resp.data
        merged == IF Truthy(cloudData) THEN Obj(cloudData.v @@ st.data.v) ELSE cloudData
    IN  IF Truthy(s1.thrown) THEN handleCloudLoadCatch(s1, now)
        ELSE IF Truthy(cloudData)
             THEN updateSyncStatus(
                      saveToLocal(onDataLoad(s1, merged), u, merged, now, outcome),
                      "synced", now)
             ELSE updateSyncStatus(s1, "offline", now)

\* a handleCloudLoad that reports a load without data as a failure
handleCloudLoadSettledStrict(st, resp, u, now, outcome) ==
    LET s1 == loadFromCloudSettled(st, resp, now)
        cloudData == resp.data
    IN  IF Truthy(s1.thrown) THEN handleCloudLoadCatch(s1, now)
        ELSE IF Truthy(cloudData)
             THEN updateSyncStatus(
                      saveToLocal(onDataLoad(s1, cloudData), u, cloudData, now, outcome),
                      "synced", now)
             ELSE handleCloudLoadCatch([s1 EXCEPT !.thrown = HttpErrorMsg(404)], now)

\* handleCloudLoad after its await; u is the user its closure holds
handleCloudLoadSettled(st, resp, u, now, outcome) ==
    LET s1 == loadFromCloudSettled(st, resp, now)
        cloudData == resp.data
    IN  IF Truthy(s1.thrown) THEN handleCloudLoadCatch(s1, now)
        ELSE IF Truthy(cloudData)
             THEN updateSyncStatus(
                      saveToLocal(onDataLoad(s1, cloudData), u, cloudData, now, outcome),
                      "synced", now)
             ELSE updateSyncStatus(s1, "offline", now)

\* a promise that rejects with no handler attached: the exception reaches no
\* catch block and the runtime reports an unhandled rejection
Unhandled(st) ==
    IF Truthy(st.thrown) THEN [st EXCEPT !.unhandled = TRUE, !.thrown = Null]
    ELSE st

\* a load-on-mount effect that reads the local record only without an endpoint
loadOnMountCloudOnly(st, cfg, u, now) ==
    IF Truthy(u)
    THEN IF cfg.endpoint # ""
         THEN Unhandled(loadFromCloud(st, cfg, u, now, "mount"))
         ELSE loadFromLocal(st, u)
    ELSE st

\* the load-on-mount effect: its cloud load is neither awaited nor caught
loadOnMount(st, cfg, u, now) ==
    IF Truthy(u)
    THEN LET s1 == loadFromLocal(st, u)
         IN  IF cfg.endpoint # "" /\ Truthy(u)
             THEN Unhandled(loadFromCloud(s1, cfg, u, now, "mount"))
             ELSE s1
    ELSE st

\* the settling of the cloud load started by the load-on-mount effect
loadOnMountSettled(st, resp, now) ==
    Unhandled(loadFromCloudSettled(st, resp, now))

\* the auto-sync effect's cleanup: clearTimeout of the timer its last run armed
autoSyncCleanup(e) ==
    [timers |-> {tm \in e.timers : tm.id # e.syncTimeout}, syncTimeout |-> 0]

FreshId(ts) ==
    CHOOSE i \in 1..(Cardinality(ts) + 1) :
        /\ \A tm \in ts : tm.id # i
        /\ \A j \in 1..(i - 1) : \E tm \in ts : tm.id = j

\* an auto-sync effect that arms a new timer without clearing the old one
autoSyncEffectNoCleanup(e, d, cfg, u) ==
    LET c == [timers |-> e.timers, syncTimeout |-> e.syncTimeout]
    IN  IF cfg.autoSync /\ Truthy(d) /\ KeysLength(d) > 0 /\ Truthy(u)
        THEN LET id == FreshId(c.timers)
             IN  [timers |-> c.timers \cup {[id |-> id, data |-> d, config |-> cfg,
                                              user |-> u]},
                  syncTimeout |-> id]
        ELSE c

\* an auto-sync effect that arms its timer for any non-empty snapshot
autoSyncEffectUnconditional(e, d, cfg, u) ==
    LET c == autoSyncCleanup(e)
    IN  IF Truthy(d) /\ KeysLength(d) > 0
        THEN LET id == FreshId(c.timers)
             IN  [timers |-> c.timers \cup {[id |-> id, data |-> d, config |-> cfg,
                                              user |-> u]},
                  syncTimeout |-> id]
        ELSE c

\* a run of the auto-sync effect after one of its dependencies (data,
\* config.autoSync, isAuthenticated) changed: cleanup, then the effect body
\* with the values d, cfg, u of the new render
autoSyncEffect(e, d, cfg, u) ==
    LET c == autoSyncCleanup(e)
    IN  IF cfg.autoSync /\ Truthy(d) /\ KeysLength(d) > 0 /\ Truthy(u)
        THEN LET id == FreshId(c.timers)
             IN  [timers |-> c.timers \cup {[id |-> id, data |-> d, config |-> cfg,
                                              user |-> u]},
                  syncTimeout |-> id]
        ELSE c

\* the parent's mutation of the snapshot (ChecklistApp's toggleItem)
toggleItem(prev, itemId) ==
    [k \in DOMAIN prev \cup {itemId} |->
        IF k = itemId THEN (IF itemId \in DOMAIN prev THEN ~prev[itemId] ELSE TRUE)
        ELSE prev[k]]

ToStorage(str) == IF str = "" THEN <<>> ELSE <<str>>
FromStorage(item) == IF item = <<>> THEN "" ELSE item[1]
BoolToString(b) == IF b THEN "true" ELSE "false"

\* the initial value of the config state
initialConfig(ls) ==
    [endpoint |-> FromStorage(ls[EndpointKey]),
     autoSync |-> FromStorage(ls[AutoSyncKey]) # "false"]

(***************************************************************************)
(* Backup files.  handleExport serializes {data, exportedAt, exportedBy,   *)
(* version}; a file chosen for import holds such a text, one of another    *)
(* session or of another shape, or no JSON at all.                         *)
(***************************************************************************)
Undefined == [t |-> "undefined"]
FileTimes == {"t0"}

ExportedBy(u) ==
    IF Truthy(u) THEN [t |-> "obj", name |-> Name(u.id), email |-> u.email, id |-> u.id]
    ELSE Null

\* an export object that keeps the checked items only
ExportDataCheckedOnly(d, u, at) ==
    [t |-> "obj",
     data |-> IF d.t = "obj"
              THEN Obj([k \in {i \in DOMAIN d.v : d.v[i]} |-> TRUE]) ELSE d,
     exportedAt |-> at, exportedBy |-> ExportedBy(u), version |-> "1.0"]

ExportData(d, u, at) ==
    [t |-> "obj", data |-> d, exportedAt |-> at, exportedBy |-> ExportedBy(u),
     version |-> "1.0"]

StringifyExportedBy(e) ==
    IF e = Null THEN <<"null">>
    ELSE <<"{", "name", e.name, "email", e.email, "id", e.id, "}">>

\* JSON.stringify of the export object: a property whose value is undefined
\* is left out
StringifyExport(x) ==
    <<"{">> \o (IF x.data = Undefined THEN <<>> ELSE <<"data">> \o Stringify(x.data))
            \o <<"exportedAt">> \o x.exportedAt
            \o <<"exportedBy">> \o StringifyExportedBy(x.exportedBy)
            \o <<"version", x.version, "}">>

\* the texts of the files of earlier sessions the user can pick for import:
\* exports, objects without a data field or with data null, "null", no JSON
FileTexts ==
    {StringifyExport(ExportData(Obj("b" :> TRUE), GoogleUser(GoogleUserId),
                                ToISOString(at))) : at \in FileTimes}
    \cup {StringifyExport(ExportData(d, Null, ToISOString(at))) :
              d \in {Obj(EmptySnapshot), Null, Undefined}, at \in FileTimes}
    \cup {<<"null">>, Corrupt}

\* JSON.parse of a file's text, token by token
IndexOf(text, tok) ==
    IF \E i \in 1..Len(text) : text[i] = tok
    THEN CHOOSE i \in 1..Len(text) : text[i] = tok /\ \A j \in 1..(i - 1) : text[j] # tok
    ELSE 0

CanParseExportedBy(s) ==
    \/ s = <<"null">>
    \/ Len(s) = 8 /\ s[1] = "{" /\ s[2] = "name" /\ s[4] = "email" /\ s[6] = "id"
                  /\ s[8] = "}"
ParseExportedBy(s) ==
    IF s = <<"null">> THEN Null
    ELSE [t |-> "obj", name |-> s[3], email |-> s[5], id |-> s[7]]

CanParseFile(text) ==
    \/ text = <<"null">>
    \/ LET a == IndexOf(text, "exportedAt")
           v == IndexOf(text, "version")
       IN  /\ Len(text) >= 8 /\ text[1] = "{" /\ text[Len(text)] = "}"
           /\ a >= 2 /\ v = Len(text) - 2 /\ v >= a + 4
           /\ a = 2 \/ (a >= 4 /\ text[2] = "data" /\ CanParse(SubSeq(text, 3, a - 1)))
           /\ text[a + 2] = "exportedBy"
           /\ CanParseExportedBy(SubSeq(text, a + 3, v - 1))

ParseFile(text) ==
    IF text = <<"null">> THEN Null
    ELSE LET a == IndexOf(text, "exportedAt")
             v == IndexOf(text, "version")
         IN  [t |-> "obj",
              data |-> IF a = 2 THEN Undefined ELSE Parse(SubSeq(text, 3, a - 1)),
              exportedAt |-> <<text[a + 1]>>,
              exportedBy |-> ParseExportedBy(SubSeq(text, a + 3, v - 1)),
              version |-> text[v + 1]]

\* handleExport: the file it hands to the browser
handleExport(d, u, now) ==
    [name |-> <<"design-checklist", IF Truthy(u) THEN GivenName(u.id) ELSE "backup">>
                  \o ToISOString(now),
     text |-> StringifyExport(ExportData(d, u, ToISOString(now)))]

\* a handleImport that merges the file's snapshot into the current one
handleImportMerge(st, text, d, cfg, u, now, outcome) ==
    IF ~CanParseFile(text) \/ ParseFile(text) = Null
    THEN setError(st, ImportErrorMsg)
    ELSE LET importData == ParseFile(text)
             merged == IF importData.data.t = "obj" /\ d.t = "obj"
                       THEN Obj(importData.data.v @@ d.v) ELSE importData.data
         IN  IF Truthy(importData.data)
             THEN LET s1 == saveToLocal(onDataLoad(st, merged), u, merged, now, outcome)
                  IN  IF cfg.autoSync /\ Truthy(u)
                      THEN handleSync(s1, d, cfg, u, now, outcome)
                      ELSE s1
             ELSE st

\* the reader.onload of handleImport: d, cfg, u are the values of the render
\* that handled the file input's change event.  JSON.parse may throw, and so
\* does reading .data of null; both end in the catch block.
handleImport(st, text, d, cfg, u, now, outcome) ==
    IF ~CanParseFile(text) \/ ParseFile(text) = Null
    THEN setError(st, ImportErrorMsg)
    ELSE LET importData == ParseFile(text)
         IN  IF Truthy(importData.data)
             THEN LET s1 == saveToLocal(onDataLoad(st, importData.data), u,
                                        importData.data, now, outcome)
                  IN  IF cfg.autoSync /\ Truthy(u)
                      THEN handleSync(s1, d, cfg, u, now, outcome)
                      ELSE s1
             ELSE st

(***************************************************************************)
(* The remote functions save and load.  An event is the HTTP request a     *)
(* function receives; a handler returns a response and the remote state it *)
(* leaves.                                                                 *)
(***************************************************************************)
HttpMethods == {"OPTIONS", "GET", "POST"}
BadToken == "expired"
Authorizations ==
    {<<>>, <<"Basic", "tok1">>, <<"Bearer", BadToken>>} \cup {<<"Bearer", x>> : x \in Tokens}
\* event.body: absent, a text that is not JSON, or the JSON of a save request
JsonBody(id, email, d, ts) ==
    [t |-> "json", userId |-> id, userEmail |-> email, data |-> d, timestamp |-> ts]
NoBody == [JsonBody("", "", Undefined, <<>>) EXCEPT !.t = "absent"]
CorruptBody == [NoBody EXCEPT !.t = "corrupt"]
Bodies ==
    {NoBody, CorruptBody}
    \cup {JsonBody(id, Email(id), d, ToISOString(t)) :
              id \in UserIds, d \in {Null, Obj("a" :> TRUE)}, t \in Times}
SaveEvents ==
    {[fn |-> "save", httpMethod |-> m, authorization |-> a, body |-> b, userId |-> ""] :
        m \in HttpMethods, a \in Authorizations, b \in Bodies}
LoadEvents ==
    {[fn |-> "load", httpMethod |-> m, authorization |-> a, body |-> NoBody, userId |-> id] :
        m \in HttpMethods, a \in Authorizations, id \in UserIds \cup {""}}

GoogleOutcomes == {"ok", "unreachable"}

\* the identity Google's userinfo endpoint returns for a token, null when the
\* token is not valid or the endpoint cannot be reached
verifyGoogleToken(accessToken, google) ==
    IF google = "ok" /\ accessToken \in Tokens
    THEN [t |-> "obj", id |-> GoogleUserId, email |-> Email(GoogleUserId)]
    ELSE Null

HttpReply(statusCode, body) == [statusCode |-> statusCode, body |-> body]
ErrorBody(err) == [error |-> err]
Returns(reply, rem) == [response |-> reply, remote |-> rem]

\* JSON.parse(event.body || '{}'): the fields of the body, undefined when absent
ParseBody(body) ==
    IF body.t = "absent" THEN JsonBody("", "", Undefined, <<>>) ELSE body

\* a save function that counts the payloads it accepts for each user
saveHandlerCounting(ev, rem, google, now) ==
    IF ev.httpMethod = "POST" /\ Len(ev.authorization) = 2 /\ ev.authorization[1] = "Bearer"
       /\ Truthy(verifyGoogleToken(ev.authorization[2], google))
       /\ ev.body.t # "corrupt"
       /\ ParseBody(ev.body).userId = verifyGoogleToken(ev.authorization[2], google).id
    THEN LET requestBody == ParseBody(ev.body)
             kept == IF rem[requestBody.userId].t = "null" THEN 0 ELSE rem[requestBody.userId].n
         IN  Returns(HttpReply(200, [success |-> TRUE, message |-> "Data saved successfully",
                                     timestamp |-> ToISOString(now),
                                     userId |-> requestBody.userId]),
                     [rem EXCEPT ![requestBody.userId] =
                         [t |-> "saved", n |-> IF kept < 2 THEN kept + 1 ELSE kept]])
    ELSE Returns(HttpReply(500, ErrorBody("Internal server error")), rem)

\* the handler of the save function
saveHandler(ev, rem, google, now) ==
    IF ev.httpMethod = "OPTIONS" THEN Returns(HttpReply(200, <<>>), rem)
    ELSE IF ev.httpMethod # "POST"
    THEN Returns(HttpReply(405, ErrorBody("Method not allowed")), rem)
    ELSE IF Len(ev.authorization) # 2 \/ ev.authorization[1] # "Bearer"
    THEN Returns(HttpReply(401, ErrorBody("Missing or invalid authorization header")), rem)
    ELSE LET accessToken == ev.authorization[2]
             userInfo == verifyGoogleToken(accessToken, google)
         IN  IF ~Truthy(userInfo)
             THEN Returns(HttpReply(401, ErrorBody("Invalid Google token")), rem)
             ELSE IF ev.body.t = "corrupt"
             THEN Returns(HttpReply(500, ErrorBody("Internal server error")), rem)
             ELSE LET requestBody == ParseBody(ev.body)
                  IN  IF requestBody.userId # userInfo.id
                      THEN Returns(HttpReply(403, ErrorBody("User ID mismatch")), rem)
                      ELSE Returns(HttpReply(200, [success |-> TRUE,
                                                   message |-> "Data saved successfully",
                                                   timestamp |-> ToISOString(now),
                                                   userId |-> requestBody.userId]),
                                   rem)

\* the handler of the load function
loadHandler(ev, rem, google, now) ==
    IF ev.httpMethod = "OPTIONS" THEN Returns(HttpReply(200, <<>>), rem)
    ELSE IF ev.httpMethod # "GET"
    THEN Returns(HttpReply(405, ErrorBody("Method not allowed")), rem)
    ELSE IF Len(ev.authorization) # 2 \/ ev.authorization[1] # "Bearer"
    THEN Returns(HttpReply(401, ErrorBody("Missing or invalid authorization header")), rem)
    ELSE LET accessToken == ev.authorization[2]
             userId == ev.userId
         IN  IF userId = ""
             THEN Returns(HttpReply(400, ErrorBody("Missing userId parameter")), rem)
             ELSE LET userInfo == verifyGoogleToken(accessToken, google)
                  IN  IF ~Truthy(userInfo) \/ userInfo.id # userId
                      THEN Returns(HttpReply(401, ErrorBody("Invalid token or user mismatch")),
                                   rem)
                      ELSE Returns(HttpReply(200, [success |-> TRUE, data |-> Null,
                                                   timestamp |-> Null,
                                                   message |-> "No saved data found",
                                                   userId |-> userId]),
                                   rem)

handler(ev, rem, google, now) ==
    IF ev.fn = "save" THEN saveHandler(ev, rem, google, now)
    ELSE loadHandler(ev, rem, google, now)

(***************************************************************************)
(* Initial states: what an earlier session can have left in localStorage,  *)
(* and the component state the useState initialisers give.                 *)
(***************************************************************************)
\* the functions keep no record: nothing is stored for any user id
EmptyRemote == [id \in UserIds |-> Null]

InitialData == {<<>>, Corrupt, Stringify(Obj("a" :> TRUE))}

InitialStorage(e, a, tk, gu, du, d1, d2) ==
    [k \in LSKeys |->
        CASE k = EndpointKey -> ToStorage(e)
          [] k = AutoSyncKey -> a
          [] k = TokenKey -> tk
          [] k = GoogleUserKey -> gu
          [] k = DemoUserKey -> du
          [] k = <<"checklist", GoogleUserId, "data">> -> d1
          [] k = <<"checklist", GoogleUserId, "last-modified">> ->
                 IF d1 = <<>> THEN <<>> ELSE ToISOString("t1")
          [] k \in {<<"checklist", id, "data">> : id \in DemoUserIds} -> d2
          [] k \in {<<"checklist", id, "last-modified">> : id \in DemoUserIds} ->
                 IF d2 = <<>> THEN <<>> ELSE ToISOString("t1")
          [] OTHER -> <<>>]

InitialStorages ==
    {InitialStorage(e, a, cred[1], cred[2], <<>>, d1, <<>>) :
        e \in Endpoints, a \in {<<>>, <<"false">>},
        cred \in {<<<<>>, <<>>>>}
                 \cup {<<<<x>>, StringifyUser(GoogleUser(GoogleUserId))>> : x \in Tokens},
        d1 \in InitialData}

InitFrom(storages) ==
    /\ isFigmaSite \in BOOLEAN
    /\ isLoading = TRUE
    /\ user = Null
    /\ isDemo = FALSE
    /\ signInTimer = FALSE
    /\ localStorage \in storages
    /\ data = Obj(EmptySnapshot)
    /\ config = initialConfig(localStorage)
    /\ isConfigDialogOpen = FALSE
    /\ syncStatus = "offline"
    /\ lastSync = Null
    /\ error = Null
    /\ timers = {}
    /\ syncTimeout = 0
    /\ inflight = <<>>
    /\ download = <<>>
    /\ reader = <<>>
    /\ unhandled = FALSE
    /\ checklists = EmptySnapshot
    /\ saveStatus = "idle"
    /\ saveTimeout = <<>>
    /\ resetTimeouts = 0
    /\ event = <<>>
    /\ response = <<>>
    /\ remote = EmptyRemote

InitCommon == InitFrom(InitialStorages)

Init == InitCommon /\ quota = "available"

(***************************************************************************)
(* Actions.                                                                *)
(***************************************************************************)
\* ChecklistApp: JSON.stringify({ checklists, timestamp })
StringifySave(c, now) ==
    <<"{", "checklists">> \o Stringify(Obj(c)) \o <<"timestamp">> \o ToISOString(now)
    \o <<"}">>

CanParseSave(s) == \E c \in Snapshots, t \in Times : StringifySave(c, t) = s
ParseSave(s) == CHOOSE c \in Snapshots : \E t \in Times : StringifySave(c, t) = s

\* ChecklistApp's load effect: the checklists after it ran for user u
loadSavedData(c, ls, u) ==
    LET savedData == ls[ChecklistDataKey(u.id)]
    IN  IF savedData # <<>> /\ CanParseSave(savedData) THEN ParseSave(savedData) ELSE c

\* ChecklistApp's auto-save effect for the render with checklists c and user u:
\* the cleanup of the previous run clears its timer, then the effect runs
autoSaveEffect(c, u) ==
    /\ checklists' = c
    /\ IF Truthy(u) /\ Cardinality(DOMAIN c) > 0
       THEN /\ saveStatus' = "saving"
            /\ saveTimeout' = <<[checklists |-> c, user |-> u]>>
       ELSE /\ saveStatus' = saveStatus
            /\ saveTimeout' = <<>>
    /\ resetTimeouts' = resetTimeouts

\* AppContent renders ChecklistApp only for a signed-in user: a new identity
\* mounts it with fresh state and runs its effects, none unmounts it, and the
\* reset timers of an unmounted instance no longer reach any state
ChecklistAppRenders(u, ls) ==
    IF Truthy(u)
    THEN LET c == loadSavedData(EmptySnapshot, ls, u)
         IN  /\ checklists' = c
             /\ saveStatus' = IF Cardinality(DOMAIN c) > 0 THEN "saving" ELSE "idle"
             /\ saveTimeout' = IF Cardinality(DOMAIN c) > 0
                               THEN <<[checklists |-> c, user |-> u]>> ELSE <<>>
             /\ resetTimeouts' = 0
    ELSE /\ checklists' = EmptySnapshot
         /\ saveStatus' = "idle"
         /\ saveTimeout' = <<>>
         /\ resetTimeouts' = 0

\* the state a handler leaves, written back; at most MaxInFlight fetches
Apply(st) ==
    /\ Len(st.inflight) <= MaxInFlight
    /\ localStorage' = st.localStorage
    /\ syncStatus' = st.syncStatus
    /\ lastSync' = st.lastSync
    /\ error' = st.error
    /\ inflight' = st.inflight
    /\ data' = st.data
    /\ unhandled' = st.unhandled

\* React re-runs the auto-sync effect with the values of the new render
RunAutoSyncEffect(d, cfg, u) ==
    LET e == autoSyncEffect([timers |-> timers, syncTimeout |-> syncTimeout], d, cfg, u)
    IN  /\ timers' = e.timers
        /\ syncTimeout' = e.syncTimeout

\* CloudStorage's effects after the AuthProvider changed the user to u
UserChanged(st0, u) ==
    \E now \in Times :
        LET st == loadOnMount(st0, config, u, now)
        IN  /\ Apply(st)
            /\ RunAutoSyncEffect(st.data, config, u)

\* AuthProvider's mount effect, restoring a stored identity
AuthMount ==
    /\ isLoading
    /\ isLoading' = FALSE
    /\ isDemo' = isFigmaSite
    /\ LET stored == IF isFigmaSite THEN localStorage[DemoUserKey]
                     ELSE localStorage[GoogleUserKey]
           found == /\ stored # <<>>
                    /\ (isFigmaSite \/ localStorage[TokenKey] # <<>>)
                    /\ CanParseUser(stored)
       IN  /\ user' = IF found THEN ParseUser(stored) ELSE Null
           /\ UserChanged(Cur, user')
    /\ ChecklistAppRenders(user', localStorage')
    /\ UNCHANGED <<isFigmaSite, signInTimer, quota, download, reader, serverVars, config, isConfigDialogOpen>>

SignIn ==
    /\ ~isLoading /\ ~isAuthenticated /\ ~isConfigDialogOpen
    /\ IF isDemo
       THEN \E id \in DemoUserIds :
              /\ user' = GoogleUser(id)
              /\ UserChanged([Cur EXCEPT !.localStorage[DemoUserKey] =
                                              StringifyUser(GoogleUser(id))], user')
              /\ UNCHANGED <<isDemo, signInTimer>>
       ELSE /\ isDemo' = TRUE
            /\ signInTimer' = TRUE
            /\ unhandled' = FALSE
            /\ UNCHANGED <<user, localStorage, syncStatus, lastSync, error, inflight,
                           data, timers, syncTimeout>>
    /\ ChecklistAppRenders(user', localStorage')
    /\ UNCHANGED <<isFigmaSite, isLoading, quota, download, reader, serverVars, config, isConfigDialogOpen>>

\* the 100 ms timer of signIn: it calls the signIn of the render that armed it,
\* whose isDemo is false, so it sets isDemo again and arms the next timer
SignInTimerFires ==
    /\ signInTimer
    /\ isDemo' = TRUE
    /\ signInTimer' = TRUE
    /\ unhandled' = FALSE
    /\ UNCHANGED <<isFigmaSite, isLoading, user, localStorage, quota, appVars, download, reader, serverVars, data, config,
                   isConfigDialogOpen, syncStatus, lastSync, error, timers,
                   syncTimeout, inflight>>

SignOut ==
    /\ isAuthenticated /\ ~isConfigDialogOpen
    /\ user' = Null
    /\ UserChanged(
           [Cur EXCEPT !.localStorage =
               IF isDemo THEN [@ EXCEPT ![DemoUserKey] = <<>>]
               ELSE [@ EXCEPT ![GoogleUserKey] = <<>>, ![TokenKey] = <<>>]],
           Null)
    /\ ChecklistAppRenders(user', localStorage')
    /\ UNCHANGED <<isFigmaSite, isLoading, isDemo, signInTimer, quota, download, reader, serverVars, config,
                   isConfigDialogOpen>>

\* the user toggles a checklist item: the parent passes a new snapshot down
MutateWith(itemId) ==
    /\ ~isLoading /\ ~isConfigDialogOpen
    /\ data' = Obj(toggleItem(data.v, itemId))
    /\ RunAutoSyncEffect(data', config, user)
    /\ unhandled' = FALSE
    /\ UNCHANGED <<authVars, localStorage, quota, appVars, download, reader, serverVars, config,
                   isConfigDialogOpen, syncStatus, lastSync, error, inflight>>

Mutate == \E itemId \in ToggleIds : MutateWith(itemId)

\* a debounce timer fires: handleSync of the render that armed it
SyncTimeoutFiresWith(tm, now, outcome) ==
    /\ tm \in timers
    /\ Apply(handleSync(Cur, tm.data, tm.config, tm.user, now, outcome))
    /\ timers' = timers \ {tm}
    /\ UNCHANGED <<authVars, quota, appVars, download, reader, serverVars, config, isConfigDialogOpen, syncTimeout>>

SyncTimeoutFires ==
    \E tm \in timers, now \in Times, outcome \in SetItemOutcomes(quota) :
        SyncTimeoutFiresWith(tm, now, outcome)

\* the Sync Now button, disabled while the status is syncing
SyncNowWith(now, outcome) ==
    /\ isAuthenticated /\ ~isConfigDialogOpen /\ syncStatus # "syncing"
    /\ Apply(handleSync(Cur, data, config, user, now, outcome))
    /\ UNCHANGED <<authVars, quota, appVars, download, reader, serverVars, config, isConfigDialogOpen, timers, syncTimeout>>

SyncNow ==
    \E now \in Times, outcome \in SetItemOutcomes(quota) : SyncNowWith(now, outcome)

\* the Load Cloud button, disabled while syncing or without an endpoint
LoadCloudWith(now) ==
    /\ isAuthenticated /\ ~isConfigDialogOpen
    /\ syncStatus # "syncing" /\ config.endpoint # ""
    /\ Apply(handleCloudLoad(Cur, config, user, now))
    /\ UNCHANGED <<authVars, quota, appVars, download, reader, serverVars, config, isConfigDialogOpen, timers, syncTimeout>>

LoadCloud == \E now \in Times : LoadCloudWith(now)

RemoveAt(seq, i) == SubSeq(seq, 1, i - 1) \o SubSeq(seq, i + 1, Len(seq))

\* a save whose request is sent again at once when it fails
SaveSettlesWithRetry(i, resp, now) ==
    /\ i \in 1..Len(inflight)
    /\ inflight[i].via = "handleSync"
    /\ Apply(handleSyncSettled(
                 [Cur EXCEPT !.inflight = IF ResponseOk(resp) THEN RemoveAt(@, i)
                                          ELSE Append(RemoveAt(@, i), inflight[i])],
                 resp, now))
    /\ UNCHANGED <<authVars, quota, appVars, download, reader, serverVars, config, isConfigDialogOpen, timers, syncTimeout>>

\* the fetch of a saveToCloud settles with resp
SaveSettlesWith(i, resp, now) ==
    /\ i \in 1..Len(inflight)
    /\ inflight[i].via = "handleSync"
    /\ Apply(handleSyncSettled([Cur EXCEPT !.inflight = RemoveAt(@, i)], resp, now))
    /\ UNCHANGED <<authVars, quota, appVars, download, reader, serverVars, config, isConfigDialogOpen, timers, syncTimeout>>

SaveSettles ==
    \E i \in 1..Len(inflight), resp \in SaveResponses, now \in Times :
        SaveSettlesWith(i, resp, now)

\* the fetch of the loadFromCloud of a handleCloudLoad settles with resp
CloudLoadSettlesWith(i, resp, now, outcome) ==
    /\ i \in 1..Len(inflight)
    /\ inflight[i].via = "handleCloudLoad"
    /\ LET st == handleCloudLoadSettled([Cur EXCEPT !.inflight = RemoveAt(@, i)],
                                        resp, inflight[i].user, now, outcome)
       IN  /\ Apply(st)
           /\ IF st.loaded THEN RunAutoSyncEffect(st.data, config, user)
              ELSE UNCHANGED <<timers, syncTimeout>>
    /\ UNCHANGED <<authVars, quota, appVars, download, reader, serverVars, config, isConfigDialogOpen>>

CloudLoadSettles ==
    \E i \in 1..Len(inflight), resp \in LoadResponses, now \in Times,
       outcome \in SetItemOutcomes(quota) :
        CloudLoadSettlesWith(i, resp, now, outcome)

\* the fetch of the loadFromCloud of the load-on-mount effect settles with resp
MountLoadSettlesWith(i, resp, now) ==
    /\ i \in 1..Len(inflight)
    /\ inflight[i].via = "mount"
    /\ Apply(loadOnMountSettled([Cur EXCEPT !.inflight = RemoveAt(@, i)], resp, now))
    /\ UNCHANGED <<authVars, quota, appVars, download, reader, serverVars, config, isConfigDialogOpen, timers, syncTimeout>>

MountLoadSettles ==
    \E i \in 1..Len(inflight), resp \in LoadResponses, now \in Times :
        MountLoadSettlesWith(i, resp, now)

\* CloudEndpointSetup's Save, shown while no endpoint is configured; the
\* handleCloudLoad it calls belongs to the render that still has the old config
HandleEndpointChangeWith(endpoint, now) ==
    /\ isAuthenticated /\ ~isConfigDialogOpen /\ config.endpoint = ""
    /\ LET st0 == [Cur EXCEPT !.localStorage[EndpointKey] = ToStorage(endpoint)]
       IN  /\ config' = [config EXCEPT !.endpoint = endpoint]
           /\ Apply(IF endpoint # "" /\ Truthy(user)
                    THEN handleCloudLoad(st0, config, user, now)
                    ELSE st0)
    /\ UNCHANGED <<authVars, quota, appVars, download, reader, serverVars, isConfigDialogOpen, timers, syncTimeout>>

HandleEndpointChange ==
    \E endpoint \in Endpoints, now \in Times : HandleEndpointChangeWith(endpoint, now)

\* the Export button; in the signed-out view it is disabled for an empty snapshot
ExportWith(now) ==
    /\ ~isLoading /\ ~isConfigDialogOpen
    /\ isAuthenticated \/ KeysLength(data) > 0
    /\ download' = handleExport(data, user, now)
    /\ unhandled' = FALSE
    /\ UNCHANGED <<authVars, localStorage, quota, appVars, reader, serverVars, data, config,
                   isConfigDialogOpen, syncStatus, lastSync, error, timers,
                   syncTimeout, inflight>>

Export == \E now \in Times : ExportWith(now)

\* the files at hand: those of earlier sessions and the one just exported
Files == FileTexts \cup (IF download = <<>> THEN {} ELSE {download.text})

\* the user picks a file in the Import input: handleImport starts a FileReader
\* whose onload belongs to this render; the next file is picked after the
\* reader has delivered
ImportWith(text) ==
    /\ ~isLoading /\ ~isConfigDialogOpen /\ reader = <<>>
    /\ reader' = [text |-> text, data |-> data, config |-> config, user |-> user]
    /\ unhandled' = FALSE
    /\ UNCHANGED <<authVars, localStorage, quota, appVars, download, serverVars, data, config,
                   isConfigDialogOpen, syncStatus, lastSync, error, timers,
                   syncTimeout, inflight>>

Import == \E text \in Files : ImportWith(text)

\* the FileReader delivers the text: reader.onload
ReaderLoadsWith(now, outcome) ==
    /\ reader # <<>>
    /\ reader' = <<>>
    /\ LET st == handleImport(Cur, reader.text, reader.data, reader.config,
                              reader.user, now, outcome)
       IN  /\ Apply(st)
           /\ IF st.loaded THEN RunAutoSyncEffect(st.data, config, user)
              ELSE UNCHANGED <<timers, syncTimeout>>
    /\ UNCHANGED <<authVars, quota, appVars, download, serverVars, config, isConfigDialogOpen>>

ReaderLoads ==
    \E now \in Times, outcome \in SetItemOutcomes(quota) : ReaderLoadsWith(now, outcome)

OpenConfigDialog ==
    /\ isAuthenticated /\ ~isConfigDialogOpen
    /\ isConfigDialogOpen' = TRUE
    /\ unhandled' = FALSE
    /\ UNCHANGED <<authVars, localStorage, quota, appVars, download, reader, serverVars, data, config, syncStatus, lastSync,
                   error, timers, syncTimeout, inflight>>

CancelConfigDialog ==
    /\ isConfigDialogOpen
    /\ isConfigDialogOpen' = FALSE
    /\ unhandled' = FALSE
    /\ UNCHANGED <<authVars, localStorage, quota, appVars, download, reader, serverVars, data, config, syncStatus, lastSync,
                   error, timers, syncTimeout, inflight>>

\* the endpoint input of the settings dialog
EditEndpoint ==
    /\ isConfigDialogOpen
    /\ \E endpoint \in Endpoints : config' = [config EXCEPT !.endpoint = endpoint]
    /\ unhandled' = FALSE
    /\ UNCHANGED <<authVars, localStorage, quota, appVars, download, reader, serverVars, data, isConfigDialogOpen, syncStatus,
                   lastSync, error, timers, syncTimeout, inflight>>

\* the auto-sync checkbox of the settings dialog
EditAutoSync ==
    /\ isConfigDialogOpen
    /\ config' = [config EXCEPT !.autoSync = ~@]
    /\ RunAutoSyncEffect(data, config', user)
    /\ unhandled' = FALSE
    /\ UNCHANGED <<authVars, localStorage, quota, appVars, download, reader, serverVars, data, isConfigDialogOpen, syncStatus,
                   lastSync, error, inflight>>

\* the Save Settings button
SaveConfig ==
    /\ isConfigDialogOpen
    /\ isConfigDialogOpen' = FALSE
    /\ \E now \in Times :
          LET st0 == [Cur EXCEPT !.localStorage =
                         [@ EXCEPT ![EndpointKey] = ToStorage(config.endpoint),
                                   ![AutoSyncKey] = <<BoolToString(config.autoSync)>>]]
          IN  Apply(IF config.endpoint # "" /\ Truthy(user)
                    THEN handleCloudLoad(st0, config, user, now)
                    ELSE st0)
    /\ UNCHANGED <<authVars, quota, appVars, download, reader, serverVars, config, timers, syncTimeout>>

\* a request reaches one of the remote functions
ReceiveWith(ev) ==
    /\ event = <<>>
    /\ event' = ev
    /\ UNCHANGED <<clientVars, response, remote>>

Receive == \E ev \in SaveEvents \cup LoadEvents : ReceiveWith(ev)

\* the function handles the request and returns its response
HandleWith(google, now) ==
    /\ event # <<>>
    /\ LET r == handler(event, remote, google, now)
       IN  /\ response' = r.response
           /\ remote' = r.remote
    /\ event' = <<>>
    /\ UNCHANGED clientVars

Handle == \E google \in GoogleOutcomes, now \in Times : HandleWith(google, now)

\* ChecklistApp: the user toggles an item; the auto-save effect re-runs
ToggleItemWith(itemId) ==
    /\ ~isLoading /\ isAuthenticated
    /\ autoSaveEffect(toggleItem(checklists, itemId), user)
    /\ unhandled' = FALSE
    /\ UNCHANGED <<authVars, localStorage, quota, download, reader, serverVars, data,
                   config, isConfigDialogOpen, syncStatus, lastSync, error, timers,
                   syncTimeout, inflight>>

ToggleItem == \E itemId \in ToggleIds : ToggleItemWith(itemId)

\* ChecklistApp: the 1 s timer of the auto-save effect fires.  A setItem that
\* throws ends the callback before the indicator is touched
SaveTimeoutFiresWith(now, outcome) ==
    /\ saveTimeout # <<>>
    /\ resetTimeouts < MaxResets
    /\ saveTimeout' = <<>>
    /\ IF outcome = "ok"
       THEN /\ localStorage' =
                   [localStorage EXCEPT ![ChecklistDataKey(saveTimeout[1].user.id)] =
                       StringifySave(saveTimeout[1].checklists, now)]
            /\ saveStatus' = "saved"
            /\ resetTimeouts' = resetTimeouts + 1
       ELSE UNCHANGED <<localStorage, saveStatus, resetTimeouts>>
    /\ unhandled' = FALSE
    /\ UNCHANGED <<authVars, quota, download, reader, serverVars, data, config,
                   isConfigDialogOpen, syncStatus, lastSync, error, timers,
                   syncTimeout, inflight, checklists>>

SaveTimeoutFires ==
    \E now \in Times, outcome \in SetItemOutcomes(quota) : SaveTimeoutFiresWith(now, outcome)

\* ChecklistApp: a 2 s timer armed by an earlier save fires
ResetTimeoutFires ==
    /\ resetTimeouts > 0
    /\ resetTimeouts' = resetTimeouts - 1
    /\ saveStatus' = "idle"
    /\ unhandled' = FALSE
    /\ UNCHANGED <<authVars, localStorage, quota, download, reader, serverVars, data,
                   config, isConfigDialogOpen, syncStatus, lastSync, error, timers,
                   syncTimeout, inflight, checklists, saveTimeout>>

Next ==
    \/ AuthMount
    \/ SignIn
    \/ SignInTimerFires
    \/ SignOut
    \/ Mutate
    \/ SyncTimeoutFires
    \/ SyncNow
    \/ LoadCloud
    \/ SaveSettles
    \/ CloudLoadSettles
    \/ MountLoadSettles
    \/ HandleEndpointChange

Spec == Init /\ [][Next]_vars

\* the same with the settings dialog
NextSettings ==
    \/ Next
    \/ OpenConfigDialog
    \/ CancelConfigDialog
    \/ EditEndpoint
    \/ EditAutoSync
    \/ SaveConfig

\* the sessions that start outside the demo host with a stored Google identity
\* and an endpoint
InitSettings ==
    /\ Init
    /\ ~isFigmaSite
    /\ localStorage[TokenKey] # <<>>
    /\ localStorage[EndpointKey] # <<>>

SpecSettings == InitSettings /\ [][NextSettings]_vars


\* a session outside the demo host, with or without a restored identity, in
\* which the user edits the checklist and uses the Export and Import buttons.
InitBackup == Init /\ ~isFigmaSite

\* the FileReader reads a local file: it delivers before the next event
NextBackup ==
    \/ ReaderLoads
    \/ reader = <<>> /\ AuthMount
    \/ reader = <<>> /\ Mutate
    \/ reader = <<>> /\ SyncTimeoutFires
    \/ reader = <<>> /\ SaveSettles
    \/ reader = <<>> /\ MountLoadSettles
    \/ reader = <<>> /\ Export
    \/ Import

SpecBackup == InitBackup /\ [][NextBackup]_vars

\* a session in which the restored user edits the checklist and uses the
\* settings dialog
NextDialog ==
    \/ AuthMount
    \/ Mutate
    \/ SyncTimeoutFires
    \/ SaveSettles
    \/ CloudLoadSettles
    \/ MountLoadSettles
    \/ OpenConfigDialog
    \/ CancelConfigDialog
    \/ EditEndpoint
    \/ EditAutoSync
    \/ SaveConfig

SpecDialog == InitSettings /\ [][NextDialog]_vars

\* the sessions in which the user signs in and out, edits the checklist and
\* switches auto-sync in the settings dialog
NextAutoSync ==
    \/ AuthMount
    \/ SignIn
    \/ SignOut
    \/ Mutate
    \/ SyncTimeoutFires
    \/ SaveSettles
    \/ MountLoadSettles
    \/ OpenConfigDialog
    \/ CancelConfigDialog
    \/ EditAutoSync

SpecAutoSync == Init /\ [][NextAutoSync]_vars

\* signing in and out, with the 100 ms timer of signIn sure to fire while it
\* is pending; the user's own actions are under no obligation to happen
NextSignIn ==
    \/ AuthMount
    \/ SignIn
    \/ SignInTimerFires
    \/ SignOut
    \/ Mutate
    \/ MountLoadSettles

SpecSignIn == Init /\ [][NextSignIn]_vars /\ WF_vars(SignInTimerFires)

\* ChecklistApp under the AuthProvider, with what an earlier session saved
SavedTexts == {<<>>, Corrupt, StringifySave("a" :> TRUE, "t1")}

ChecklistStorages ==
    {[InitialStorage("", <<>>, cred[1], cred[2], <<>>, <<>>, <<>>)
         EXCEPT ![ChecklistDataKey(GoogleUserId)] = sd] :
     sd \in SavedTexts,
     cred \in {<<<<>>, <<>>>>}
              \cup {<<<<x>>, StringifyUser(GoogleUser(GoogleUserId))>> : x \in Tokens}}

InitChecklist == InitFrom(ChecklistStorages) /\ quota = "available"

NextChecklist ==
    \/ AuthMount
    \/ SignIn
    \/ SignOut
    \/ ToggleItem
    \/ SaveTimeoutFires
    \/ ResetTimeoutFires

SpecChecklist == InitChecklist /\ [][NextChecklist]_vars


\* the remote functions alone, serving requests of any client
InitRemote ==
    /\ Init
    /\ ~isFigmaSite
    /\ localStorage = InitialStorage("", <<>>, <<>>, <<>>, <<>>, <<>>, <<>>)

NextRemote ==
    \/ Receive
    \/ Handle

SpecRemote == InitRemote /\ [][NextRemote]_vars

\* a session with a restored identity on a browser whose localStorage is
\* near its quota: any setItem of saveToLocal can throw
InitQuota ==
    /\ InitCommon
    /\ quota = "limited"
    /\ ~isFigmaSite
    /\ localStorage[TokenKey] # <<>>

NextQuota ==
    \/ AuthMount
    \/ Mutate
    \/ SyncTimeoutFires
    \/ SyncNow
    \/ SaveSettles
    \/ LoadCloud
    \/ CloudLoadSettles
    \/ MountLoadSettles

SpecQuota == InitQuota /\ [][NextQuota]_vars

(***************************************************************************)
(* Claims.                                                                 *)
(***************************************************************************)
LocalRecord(ls, u) == ls[getStorageKey(u, "data")]
LastIssued == inflight'[Len(inflight')]
IssuesRequest == Len(inflight') = Len(inflight) + 1
HasToken == localStorage[TokenKey] # <<>>

\* what a run of handleSync with the closure values d, cfg, u leaves when it
\* passes its guard: the local record holds d, the only request it can have
\* issued carries d, and a missing token ends it in error with no request
C1_AfterHandleSync(d, cfg, u) ==
    (Truthy(d) /\ Truthy(u)) =>
        /\ LocalRecord(localStorage', u) = Stringify(d)
        /\ \/ inflight' = inflight
           \/ /\ IssuesRequest
              /\ SubSeq(inflight', 1, Len(inflight)) = inflight
              /\ LastIssued.req.kind = "save"
              /\ LastIssued.req.data = d
              /\ LastIssued.req.userId = u.id
        /\ (cfg.endpoint # "" /\ ~HasToken) =>
              /\ inflight' = inflight
              /\ syncStatus' = "error"
              /\ error' = NoTokenMsg

\* C1: handleSync is local-first.  Every step that issues a save request
\* leaves the local record of the request's user equal to the request's data;
\* every run of handleSync (debounced or manual) leaves the local record equal
\* to its snapshot, also when it fails at once for want of a token; and a save
\* that settles with a failure (network failure or non-2xx) leaves localStorage
\* as it was, sets the status to error and retains its message.
C1_LocalFirst ==
    [][ /\ (IssuesRequest /\ LastIssued.req.kind = "save") =>
               LocalRecord(localStorage', LastIssued.user) = Stringify(LastIssued.req.data)
        /\ \A tm \in timers, now \in Times, outcome \in SetItemOutcomes(quota) :
               SyncTimeoutFiresWith(tm, now, outcome) =>
                   C1_AfterHandleSync(tm.data, tm.config, tm.user)
        /\ \A now \in Times, outcome \in SetItemOutcomes(quota) :
               SyncNowWith(now, outcome) => C1_AfterHandleSync(data, config, user)
        /\ \A i \in 1..Len(inflight), resp \in SaveResponses, now \in Times :
               (SaveSettlesWith(i, resp, now) /\ ~ResponseOk(resp)) =>
                   /\ localStorage' = localStorage
                   /\ syncStatus' = "error"
                   /\ error' = SaveResponseError(resp)
      ]_vars

\* a remote save failed after a mutation and the local record holds the snapshot
C1_Witness ==
    /\ isAuthenticated
    /\ data = Obj("a" :> FALSE)
    /\ syncStatus = "error"
    /\ error = NetworkErrorMsg
    /\ LocalRecord(localStorage, user) = Stringify(data)

\* C2 as stated: for an authenticated user with a non-empty snapshot, once no
\* debounce timer is pending the local record equals the in-memory snapshot
C2_AnyAutoSync ==
    (isAuthenticated /\ KeysLength(data) > 0 /\ timers = {}) =>
        LocalRecord(localStorage, user) = Stringify(data)

\* C2 amended: for an authenticated user with autoSync enabled and a non-empty
\* snapshot, whenever no debounce timer is pending (the debounce interval has
\* elapsed after the last change) the user's local record equals the in-memory
\* snapshot, whatever the remote saves answered.
C2_LocalFirstInvariant ==
    (isAuthenticated /\ config.autoSync /\ KeysLength(data) > 0 /\ timers = {}) =>
        LocalRecord(localStorage, user) = Stringify(data)

\* the debounce elapsed after a mutation, the remote save failed, and the
\* local record holds the mutated snapshot
C2_Witness ==
    /\ isAuthenticated /\ config.autoSync /\ timers = {}
    /\ data = Obj("a" :> FALSE)
    /\ LocalRecord(localStorage, user) = Stringify(data)
    /\ syncStatus = "error"
    /\ error = HttpErrorMsg(500)
    /\ inflight = <<>>

\* a timer-fired handleSync issued exactly one request, a save carrying d
IssuesOneSave(d, u) ==
    /\ IssuesRequest
    /\ SubSeq(inflight', 1, Len(inflight)) = inflight
    /\ LastIssued.req.kind = "save"
    /\ LastIssued.req.data = d
    /\ LastIssued.req.userId = u.id
    /\ LastIssued.req.endpoint = config.endpoint

\* a mutation issues no request and leaves one pending timer, holding the
\* snapshot as of that mutation
MutationRearms ==
    \A itemId \in ToggleIds :
        (MutateWith(itemId) /\ config.autoSync /\ isAuthenticated) =>
            /\ inflight' = inflight
            /\ Cardinality(timers') = 1
            /\ \A tm \in timers' : tm.data = data' /\ tm.user = user

\* the debounce timer fires with autoSync on, an endpoint set since before the
\* mutations and the user authenticated
DebounceFires(tm, now, outcome) ==
    /\ SyncTimeoutFiresWith(tm, now, outcome)
    /\ config.autoSync /\ isAuthenticated
    /\ config.endpoint # "" /\ tm.config.endpoint = config.endpoint

\* C3: with autoSync on, an endpoint set and the user authenticated, every
\* mutation issues no request and leaves exactly one pending timer holding the
\* latest snapshot, and the firing of that timer issues exactly one save request
\* whose data is the latest snapshot and leaves no timer pending.
C3_DebounceCollapsing ==
    [][ /\ MutationRearms
        /\ \A tm \in timers, now \in Times, outcome \in SetItemOutcomes(quota) :
               DebounceFires(tm, now, outcome) =>
                   (IssuesOneSave(data, user) /\ timers' = {})
      ]_vars

\* the same for the users who hold an access token (the restored Google
\* identity): debounce collapsing holds for them
C3_WithToken ==
    [][ /\ MutationRearms
        /\ \A tm \in timers, now \in Times, outcome \in SetItemOutcomes(quota) :
               (DebounceFires(tm, now, outcome) /\ HasToken) =>
                   (IssuesOneSave(data, user) /\ timers' = {})
      ]_vars

\* the timer armed last has fired and its one save request, carrying the
\* snapshot of the last mutation, is in flight
C3_Witness ==
    /\ isAuthenticated /\ config.autoSync /\ config.endpoint # ""
    /\ timers = {} /\ syncTimeout # 0
    /\ data = Obj("a" :> FALSE)
    /\ Len(inflight) = 1
    /\ inflight[1].req.kind = "save"
    /\ inflight[1].req.data = data
    /\ syncStatus = "syncing"

\* C4: at most one debounce timer is pending in every reachable state, and a
\* pending timer is the one the effect's cleanup will clear.
C4_OneTimer ==
    /\ Cardinality(timers) <= 1
    /\ \A tm \in timers : tm.id = syncTimeout

\* a timer armed by an earlier change was superseded: one timer is pending and
\* it holds a snapshot that only a later mutation can have produced
C4_Witness ==
    /\ Cardinality(timers) = 1
    /\ \E tm \in timers : tm.data = Obj("a" :> FALSE) /\ tm.data = data

\* a save settles with a 2xx response
SaveSucceeds(i, resp, now) == SaveSettlesWith(i, resp, now) /\ ResponseOk(resp)

\* C5: with an endpoint set and the user authenticated, the firing of the
\* debounce timer issues one save request carrying the snapshot, and a 2xx
\* answer to a save leaves the status synced, the last-sync timestamp recorded
\* and the error message cleared.
C5_SyncedOnSuccess ==
    [][ /\ \A tm \in timers, now \in Times, outcome \in SetItemOutcomes(quota) :
               DebounceFires(tm, now, outcome) => IssuesOneSave(tm.data, tm.user)
        /\ \A i \in 1..Len(inflight), resp \in SaveResponses, now \in Times :
               SaveSucceeds(i, resp, now) =>
                   (syncStatus' = "synced" /\ lastSync' = Date(now) /\ error' = Null)
      ]_vars

\* the same for the users who hold an access token
C5_WithToken ==
    [][ /\ \A tm \in timers, now \in Times, outcome \in SetItemOutcomes(quota) :
               (DebounceFires(tm, now, outcome) /\ HasToken) =>
                   IssuesOneSave(tm.data, tm.user)
        /\ \A i \in 1..Len(inflight), resp \in SaveResponses, now \in Times :
               SaveSucceeds(i, resp, now) =>
                   (syncStatus' = "synced" /\ lastSync' = Date(now) /\ error' = Null)
      ]_vars

\* a debounced save of a mutated snapshot was answered 2xx
C5_Witness ==
    /\ isAuthenticated /\ config.endpoint # "" /\ HasToken
    /\ data = Obj("a" :> FALSE)
    /\ LocalRecord(localStorage, user) = Stringify(data)
    /\ syncStatus = "synced" /\ lastSync # Null /\ error = Null
    /\ timers = {} /\ syncTimeout # 0 /\ inflight = <<>>

\* what a sync without an endpoint leaves: the local record holds the current
\* snapshot, the status is offline and no request was issued
C6_AfterSync(u) ==
    /\ LocalRecord(localStorage', u) = Stringify(data)
    /\ syncStatus' = "offline"
    /\ inflight' = inflight

\* C6: with no endpoint configured, a debounced or manual sync for an
\* authenticated user writes the current snapshot to the local record, ends
\* with status offline and issues no request.
C6_NoEndpointOffline ==
    [][ /\ \A tm \in timers, now \in Times, outcome \in SetItemOutcomes(quota) :
               (SyncTimeoutFiresWith(tm, now, outcome) /\ isAuthenticated
                  /\ config.endpoint = "" /\ tm.config.endpoint = "") =>
                   C6_AfterSync(user)
        /\ \A now \in Times, outcome \in SetItemOutcomes(quota) :
               (SyncNowWith(now, outcome) /\ config.endpoint = "") => C6_AfterSync(user)
      ]_vars

\* a sync without an endpoint wrote a mutated snapshot and ended offline
C6_Witness ==
    /\ isAuthenticated /\ config.endpoint = ""
    /\ data = Obj("a" :> FALSE)
    /\ LocalRecord(localStorage, user) = Stringify(data)
    /\ syncStatus = "offline" /\ inflight = <<>>

\* C7: a save answered 401 ends with status error and the authentication
\* expired message, not the generic HTTP message, and leaves localStorage, so
\* the synced snapshot, as it was.
C7_Save401 ==
    [][ \A i \in 1..Len(inflight), now \in Times :
            SaveSettlesWith(i, HttpResponse(401, Null), now) =>
                /\ syncStatus' = "error"
                /\ error' = AuthExpiredMsg
                /\ error' # HttpErrorMsg(401)
                /\ localStorage' = localStorage
      ]_vars

\* a save of a mutated snapshot was refused as expired and the local record
\* holds the snapshot
C7_Witness ==
    /\ isAuthenticated
    /\ data = Obj("a" :> FALSE)
    /\ LocalRecord(localStorage, user) = Stringify(data)
    /\ syncStatus = "error" /\ error = AuthExpiredMsg
    /\ lastSync = Null /\ inflight = <<>> /\ timers = {} /\ syncTimeout # 0

\* C8: for save and for load, 401 and 403 are each reported with the
\* authentication expired message, and no other failure is.
C8_AuthExpired401And403 ==
    [][ /\ \A i \in 1..Len(inflight), resp \in SaveResponses, now \in Times :
               (SaveSettlesWith(i, resp, now) /\ ~ResponseOk(resp)) =>
                   (error' = AuthExpiredMsg <=> resp.status \in {401, 403})
        /\ \A i \in 1..Len(inflight), resp \in LoadResponses, now \in Times,
              outcome \in SetItemOutcomes(quota) :
               (CloudLoadSettlesWith(i, resp, now, outcome) /\ ~ResponseOk(resp)) =>
                   (error' = AuthExpiredMsg <=> resp.status \in {401, 403})
      ]_vars

\* C9: a handleCloudLoad whose load answers 2xx with a non-null snapshot B
\* leaves the in-memory snapshot equal to B, the local record of the user who
\* started the load equal to the serialization of B, and the status synced.
C9_RemoteWins ==
    [][ \A i \in 1..Len(inflight), resp \in LoadResponses, now \in Times,
           outcome \in SetItemOutcomes(quota) :
            (CloudLoadSettlesWith(i, resp, now, outcome) /\ ResponseOk(resp)
               /\ resp.data # Null) =>
                /\ data' = resp.data
                /\ LocalRecord(localStorage', inflight[i].user) = Stringify(resp.data)
                /\ Parse(LocalRecord(localStorage', inflight[i].user)) = resp.data
                /\ syncStatus' = "synced"
      ]_vars

\* a cloud load replaced the snapshot and the local record by the remote one
C9_Witness ==
    /\ isAuthenticated
    /\ data = Obj("b" :> TRUE)
    /\ LocalRecord(localStorage, user) = Stringify(data)
    /\ syncStatus = "synced" /\ inflight = <<>>

\* C10: the cloud load of the load-on-mount effect, answered 2xx with a
\* snapshot B, overwrites the in-memory snapshot and the local record with B.
C10_MountLoadOverwrites ==
    [][ \A i \in 1..Len(inflight), resp \in LoadResponses, now \in Times :
            (MountLoadSettlesWith(i, resp, now) /\ ResponseOk(resp)
               /\ Truthy(resp.data)) =>
                /\ data' = resp.data
                /\ LocalRecord(localStorage', inflight[i].user) = Stringify(resp.data)
      ]_vars

\* a manual or mount-time cloud load fails when its fetch settles
LoadFails(resp) == ~ResponseOk(resp)

\* C11: a cloud load that fails (network failure, non-2xx response, missing
\* token) ends with status offline and a non-null error message.
C11_LoadFailureOffline ==
    [][ /\ \A i \in 1..Len(inflight), resp \in LoadResponses, now \in Times,
              outcome \in SetItemOutcomes(quota) :
               (CloudLoadSettlesWith(i, resp, now, outcome) /\ LoadFails(resp)) =>
                   (syncStatus' = "offline" /\ error' # Null)
        /\ \A i \in 1..Len(inflight), resp \in LoadResponses, now \in Times :
               (MountLoadSettlesWith(i, resp, now) /\ LoadFails(resp)) =>
                   (syncStatus' = "offline" /\ error' # Null)
        /\ \A now \in Times :
               (LoadCloudWith(now) /\ ~HasToken) =>
                   (syncStatus' = "offline" /\ error' # Null)
      ]_vars

\* C12: a cloud load that fails, manual or on mount, when its fetch settles or
\* for want of a token, leaves localStorage and the in-memory snapshot as they
\* were.
C12_FailedLoadFrame ==
    [][ /\ \A i \in 1..Len(inflight), resp \in LoadResponses, now \in Times,
              outcome \in SetItemOutcomes(quota) :
               (CloudLoadSettlesWith(i, resp, now, outcome) /\ LoadFails(resp)) =>
                   (localStorage' = localStorage /\ data' = data)
        /\ \A i \in 1..Len(inflight), resp \in LoadResponses, now \in Times :
               (MountLoadSettlesWith(i, resp, now) /\ LoadFails(resp)) =>
                   (localStorage' = localStorage /\ data' = data)
        /\ \A now \in Times :
               (LoadCloudWith(now) /\ ~HasToken) =>
                   (localStorage' = localStorage /\ data' = data)
      ]_vars

\* a load was refused as expired and the snapshot read from the local record
\* is still shown and still stored
C12_Witness ==
    /\ isAuthenticated /\ config.endpoint # ""
    /\ data = Obj("a" :> TRUE)
    /\ LocalRecord(localStorage, user) = Stringify(data)
    /\ syncStatus = "error" /\ error = AuthExpiredMsg
    /\ lastSync = Null /\ inflight = <<>>

\* C13: in the step in which a user becomes authenticated, the snapshot is
\* replaced by that user's local record if one is stored and parses, whether
\* or not an endpoint is configured, and the only request the step can issue
\* is the mount load, issued with that snapshot already delivered.
C13_LocalReadFirst ==
    [][ (user' # user /\ Truthy(user')) =>
            LET rec == LocalRecord(localStorage, user')
            IN  /\ (rec # <<>> /\ CanParse(rec)) => data' = Parse(rec)
                /\ (rec = <<>> \/ ~CanParse(rec)) => data' = data
                /\ LocalRecord(localStorage', user') = rec
                /\ inflight' # inflight =>
                       /\ IssuesRequest
                       /\ LastIssued.via = "mount"
                       /\ LastIssued.req.kind = "load"
      ]_vars

\* the mount load is in flight and the stored snapshot is already shown
C13_Witness ==
    /\ isAuthenticated /\ config.endpoint # ""
    /\ Len(inflight) = 1 /\ inflight[1].via = "mount"
    /\ data = Obj("a" :> TRUE)
    /\ LocalRecord(localStorage, user) = Stringify(data)
    /\ syncStatus = "syncing"

\* C14: changing the endpoint to a non-empty E through the setup flow, with a
\* user present and an access token stored, issues a load request to E.
C14_EndpointChangeLoads ==
    [][ \A endpoint \in Endpoints, now \in Times :
            (HandleEndpointChangeWith(endpoint, now) /\ endpoint # ""
               /\ Truthy(user) /\ HasToken) =>
                /\ IssuesRequest
                /\ LastIssued.req.kind = "load"
                /\ LastIssued.req.endpoint = endpoint
      ]_vars

\* the same for the Save Settings button, whose handler belongs to the render
\* that holds the edited config
C14_SaveConfigLoads ==
    [][ (SaveConfig /\ config.endpoint # "" /\ Truthy(user) /\ HasToken) =>
            /\ IssuesRequest
            /\ LastIssued.req.kind = "load"
            /\ LastIssued.req.endpoint = config.endpoint
      ]_vars

\* C15: whenever the settings dialog is closed, the in-memory StorageConfig
\* equals the config read back from the persisted entries, so an edit in the
\* dialog that was cancelled has no effect on it.
C15_ConfigPersisted ==
    ~isConfigDialogOpen => config = initialConfig(localStorage)

\* the text of an export of snapshot d by exporter u at time at
ExportText(d, u, at) == StringifyExport(ExportData(d, u, ToISOString(at)))
Exporters == Users \cup {Null}
ExportTimes == Times \cup FileTimes

\* the FileReader delivers the text of an export of d
LoadsExportOf(d, now, outcome) ==
    /\ reader # <<>>
    /\ \E u \in Exporters, at \in ExportTimes : reader.text = ExportText(d, u, at)
    /\ ReaderLoadsWith(now, outcome)

\* what an import of a file whose data field is D must leave
C16_AfterImport(D) ==
    /\ data' = D
    /\ LocalRecord(localStorage', reader.user) = Stringify(D)
    /\ \A k \in (Len(inflight) + 1)..Len(inflight') :
           inflight'[k].req.kind = "save" => inflight'[k].req.data = D

\* C16: an import of a well-formed file whose data field is D leaves the
\* in-memory snapshot and the user's local record equal to D, with autoSync on
\* and the user authenticated too, and every save request it issues carries D.
C16_ImportReplaces ==
    [][ \A D \in JsonValues, now \in Times, outcome \in SetItemOutcomes(quota) :
            (Truthy(D) /\ LoadsExportOf(D, now, outcome)) => C16_AfterImport(D)
      ]_vars

\* the same without the immediate sync (autoSync off or nobody signed in):
\* the replacement is wholesale
C16_WithoutSync ==
    [][ \A D \in JsonValues, now \in Times, outcome \in SetItemOutcomes(quota) :
            (Truthy(D) /\ ~(reader # <<>> /\ reader.config.autoSync /\ Truthy(reader.user))
               /\ LoadsExportOf(D, now, outcome)) =>
                C16_AfterImport(D)
      ]_vars

\* C17: an import of a file that parses as JSON but has no data field, or of
\* a file that is not JSON, sets the format error message and leaves the
\* in-memory snapshot and localStorage unchanged.
C17_ImportFormatError ==
    [][ \A now \in Times, outcome \in SetItemOutcomes(quota) :
            ((LoadsExportOf(Undefined, now, outcome))
               \/ (reader # <<>> /\ reader.text = Corrupt
                     /\ ReaderLoadsWith(now, outcome))) =>
                /\ error' = ImportErrorMsg
                /\ data' = data
                /\ localStorage' = localStorage
      ]_vars

\* the same for a file that is not JSON only
C17_NotJson ==
    [][ \A now \in Times, outcome \in SetItemOutcomes(quota) :
            (reader # <<>> /\ reader.text = Corrupt /\ ReaderLoadsWith(now, outcome)) =>
                /\ error' = ImportErrorMsg
                /\ data' = data
                /\ localStorage' = localStorage
      ]_vars

\* C18: importing the file that an export of snapshot S produces, whoever
\* exported it and whenever, leaves the in-memory snapshot with exactly the
\* key/value pairs of S, the empty snapshot included.
C18_RoundTrip ==
    [][ \A S \in Snapshots, now \in Times, outcome \in SetItemOutcomes(quota) :
            LoadsExportOf(Obj(S), now, outcome) =>
                /\ data' = Obj(S)
                /\ DOMAIN data'.v = DOMAIN S
                /\ \A k \in DOMAIN S : data'.v[k] = S[k]
      ]_vars

\* signed out, the snapshot {a: true} was exported and the exported file
\* imported: only an import writes the record of the signed-out user
C18_Witness ==
    /\ ~isLoading /\ user = Null /\ reader = <<>>
    /\ data = Obj("a" :> TRUE)
    /\ download # <<>>
    /\ download.text = ExportText(data, Null, "t1")
    /\ LocalRecord(localStorage, Null) = Stringify(data)

\* C19: an export hands over a file whose data is the complete in-memory
\* snapshot, whose version is "1.0" and whose exportedBy is the signed-in
\* identity or null; it changes neither the snapshot, localStorage, the status
\* nor the requests in flight.
C19_ExportPure ==
    [][ \A now \in Times :
            ExportWith(now) =>
                LET file == ParseFile(download'.text)
                IN  /\ CanParseFile(download'.text)
                    /\ file.data = data
                    /\ file.version = "1.0"
                    /\ IF Truthy(user)
                       THEN /\ file.exportedBy # Null
                            /\ file.exportedBy.id = user.id
                            /\ file.exportedBy.email = user.email
                       ELSE file.exportedBy = Null
                    /\ UNCHANGED <<data, localStorage, syncStatus, lastSync, error,
                                   inflight, timers, config>>
      ]_vars

\* a snapshot with an unchecked item was exported by the signed-in user
C19_Witness ==
    /\ isAuthenticated
    /\ data = Obj("a" :> FALSE)
    /\ download # <<>>
    /\ ParseFile(download.text).data = data
    /\ ParseFile(download.text).exportedBy # Null
    /\ ParseFile(download.text).exportedBy.id = user.id


\* the data and last-modified entries of the user with id B
EntriesOf(ls, B) ==
    [sfx \in {"data", "last-modified"} |-> ls[<<"checklist", B, sfx>>]]

\* the two global entries of the configuration
ConfigEntries(ls) == <<ls[EndpointKey], ls[AutoSyncKey]>>

\* the storage key is a function of the id: the email plays no part and two
\* identities share a key only if they share their id
KeysFromIdOnly ==
    \A u1 \in Users, u2 \in Users, sfx \in {"data", "last-modified"} :
        /\ getStorageKey([u1 EXCEPT !.email = u2.email], sfx) = getStorageKey(u1, sfx)
        /\ (getStorageKey(u1, sfx) = getStorageKey(u2, sfx)) <=> (u1.id = u2.id)

\* C20: a step taken while the user with id A is signed in leaves the data
\* and last-modified entries of every other id B unchanged, a step that is
\* not a change of the endpoint leaves the two configuration entries
\* unchanged, and the storage keys depend on the id only.
C20_NamespaceIsolation ==
    [][ /\ KeysFromIdOnly
        /\ \A A \in UserIds, B \in UserIds :
               (Truthy(user) /\ user.id = A /\ B # A) =>
                   EntriesOf(localStorage', B) = EntriesOf(localStorage, B)
        /\ (\A ep \in Endpoints, now \in Times : ~HandleEndpointChangeWith(ep, now)) =>
               ConfigEntries(localStorage') = ConfigEntries(localStorage)
      ]_vars


\* the same for every step but the settling of a manual load, whose write
\* goes to the record of the identity that started the load
C20_OutsideLoadSettling ==
    [][ /\ KeysFromIdOnly
        /\ \A A \in UserIds, B \in UserIds :
               (Truthy(user) /\ user.id = A /\ B # A
                  /\ \A i \in 1..Len(inflight), resp \in LoadResponses, now \in Times,
                        outcome \in SetItemOutcomes(quota) :
                         ~CloudLoadSettlesWith(i, resp, now, outcome)) =>
                   EntriesOf(localStorage', B) = EntriesOf(localStorage, B)
        /\ (\A ep \in Endpoints, now \in Times : ~HandleEndpointChangeWith(ep, now)) =>
               ConfigEntries(localStorage') = ConfigEntries(localStorage)
      ]_vars


\* a step whose saveToLocal for the signed-in user meets the outcome given
PutWith(now, outcome) ==
    \/ SyncNowWith(now, outcome)
    \/ \E tm \in timers : tm.user = user /\ SyncTimeoutFiresWith(tm, now, outcome)
    \/ \E i \in 1..Len(inflight), d \in RemoteData :
          /\ Truthy(d) /\ inflight[i].user = user
          /\ CloudLoadSettlesWith(i, HttpResponse(200, d), now, outcome)

\* C21: a saveToLocal in which a setItem throws leaves the user's data and
\* last-modified entries exactly as they were, and the handler that called it
\* goes on: the failure is not its error message.
C21_AtomicPut ==
    [][ \A now \in Times, outcome \in {"throw1", "throw2"} :
            (Truthy(user) /\ PutWith(now, outcome)) =>
                /\ EntriesOf(localStorage', user.id) = EntriesOf(localStorage, user.id)
                /\ unhandled' = FALSE
      ]_vars

\* the part that holds: a throw of the first setItem leaves the record as it
\* was, and a throw of either is caught by saveToLocal
C21_FirstWriteFails ==
    [][ /\ \A now \in Times :
              (Truthy(user) /\ PutWith(now, "throw1")) =>
                  EntriesOf(localStorage', user.id) = EntriesOf(localStorage, user.id)
        /\ \A now \in Times, outcome \in {"throw1", "throw2"} :
              (Truthy(user) /\ PutWith(now, outcome)) =>
                  /\ unhandled' = FALSE
                  /\ error' # error => error' \in {NotConfiguredMsg, NoTokenMsg, Null}
      ]_vars


\* the record stored for u is missing or is not JSON
AbsentRecord(ls, u) ==
    LocalRecord(ls, u) = <<>> \/ ~CanParse(LocalRecord(ls, u))

\* C22: when the load-on-mount effect reads a record that is missing or is
\* not JSON, loadFromLocal calls no onDataLoad and returns the state it was
\* given; the snapshot is unchanged, and so are the status and the error
\* message when no cloud load follows.
C22_AbsentRecord ==
    [][ (user' # user /\ Truthy(user') /\ AbsentRecord(localStorage, user')) =>
            /\ loadFromLocal(Cur, user') = Cur
            /\ data' = data
            /\ config.endpoint = "" =>
                   /\ syncStatus' = syncStatus
                   /\ error' = error
                   /\ unhandled' = FALSE
      ]_vars

\* g1 was restored over a stored record that is not JSON, with no endpoint
C22_Witness ==
    /\ ~isLoading /\ Truthy(user) /\ user.id = GoogleUserId
    /\ LocalRecord(localStorage, user) = Corrupt
    /\ config.endpoint = ""
    /\ data = Obj(EmptySnapshot)
    /\ syncStatus = "offline" /\ error = Null /\ inflight = <<>>


\* C23: no step of the session rejects a promise that has no handler: every
\* failure of the network, of the token lookup or of the configuration
\* precondition ends in a catch block.
C23_NoFailureEscapes == unhandled = FALSE

\* the part that holds: the exceptions of the handlers that are buttons,
\* timers or their continuations are all caught; only the cloud load of the
\* load-on-mount effect escapes.
C23_OutsideMountLoad ==
    [][ unhandled' =>
            \/ user' # user
            \/ \E i \in 1..Len(inflight) :
                  /\ inflight[i].via = "mount"
                  /\ inflight' = RemoveAt(inflight, i)
      ]_vars


LoadSettlesEmpty ==
    \E i \in 1..Len(inflight), now \in Times :
        \/ \E outcome \in SetItemOutcomes(quota) :
              CloudLoadSettlesWith(i, HttpResponse(200, Null), now, outcome)
        \/ MountLoadSettlesWith(i, HttpResponse(200, Null), now)

\* C25: a load that settles with status 200 and data null sets no error
\* message, does not turn the status into error, and leaves the snapshot and
\* localStorage as they were.
C25_EmptyLoadNoError ==
    [][ LoadSettlesEmpty =>
            /\ error' = error
            /\ syncStatus' = "error" => syncStatus = "error"
            /\ unhandled' = FALSE
            /\ data' = data
            /\ localStorage' = localStorage
      ]_vars

\* g1 was restored and edited the checklist while the load of the mount
\* effect was in flight; the load found nothing stored: the edit is still
\* shown, no record was written and no error is set
C25_Witness ==
    /\ Truthy(user) /\ HasToken /\ config.endpoint # ""
    /\ KeysLength(data) > 0
    /\ LocalRecord(localStorage, user) = <<>>
    /\ syncStatus = "syncing" /\ error = Null /\ lastSync = Null
    /\ inflight = <<>> /\ timers # {}


\* the request being handled carries a bearer token that Google verifies
TokenVerified(google) ==
    /\ Len(event.authorization) = 2 /\ event.authorization[1] = "Bearer"
    /\ Truthy(verifyGoogleToken(event.authorization[2], google))

\* the user id the request names: in the body of a save, in the query of a load
RequestedUserId ==
    IF event.fn = "save" THEN ParseBody(event.body).userId ELSE event.userId

\* a save (POST) or load (GET) whose user id is not the identity of its token
AuthMismatch(google) ==
    /\ event # <<>>
    /\ \/ event.fn = "save" /\ event.httpMethod = "POST" /\ event.body.t = "json"
       \/ event.fn = "load" /\ event.httpMethod = "GET"
    /\ TokenVerified(google)
    /\ RequestedUserId # ""
    /\ RequestedUserId # verifyGoogleToken(event.authorization[2], google).id

\* C26: a save and a load whose userId differs from the identity of the
\* bearer token are answered with status 403, which is not the status of a
\* missing or invalid token, and leave the remote state unchanged.
C26_MismatchForbidden ==
    [][ \A google \in GoogleOutcomes, now \in Times :
            (AuthMismatch(google) /\ HandleWith(google, now)) =>
                /\ response'.statusCode = 403
                /\ remote' = remote
      ]_vars

\* the part that holds: the save function answers 403, and both functions
\* answer a missing or invalid token with 401 and leave the remote unchanged
C26_SaveMismatch ==
    [][ \A google \in GoogleOutcomes, now \in Times :
            /\ (AuthMismatch(google) /\ event.fn = "save" /\ HandleWith(google, now)) =>
                   response'.statusCode = 403 /\ remote' = remote
            /\ (AuthMismatch(google) /\ HandleWith(google, now)) => remote' = remote
            /\ (event # <<>> /\ ~TokenVerified(google) /\ HandleWith(google, now)
                  /\ event.httpMethod = (IF event.fn = "save" THEN "POST" ELSE "GET")
                  /\ (event.fn = "load" /\ Len(event.authorization) = 2
                        /\ event.authorization[1] = "Bearer" => event.userId # "")) =>
                   response'.statusCode = 401 /\ remote' = remote
      ]_vars

\* the remote state after the save function handled ev n times
RECURSIVE AfterSaves(_, _, _, _, _)
AfterSaves(ev, rem, google, now, n) ==
    IF n = 0 THEN rem
    ELSE AfterSaves(ev, saveHandler(ev, rem, google, now).remote, google, now, n - 1)

\* what a load observes: the response to every load request
Observed(rem) ==
    [ev \in LoadEvents |-> loadHandler(ev, rem, "ok", "t1").response]

\* C27: the remote state a save leaves is the state a second, identical save
\* leaves, and every load is answered alike after one and after two.
C27_IdempotentSave ==
    [][ \A google \in GoogleOutcomes, now \in Times :
            (event # <<>> /\ event.fn = "save" /\ HandleWith(google, now)) =>
                /\ remote' = AfterSaves(event, remote, google, now, 1)
                /\ AfterSaves(event, remote, google, now, 2) = remote'
                /\ Observed(AfterSaves(event, remote, google, now, 2)) = Observed(remote')
      ]_vars

\* the save function accepted a save of g1's checklist
C27_Witness ==
    /\ event = <<>>
    /\ response # <<>>
    /\ response.statusCode = 200
    /\ response.body # <<>>
    /\ response.body.message = "Data saved successfully"
    /\ response.body.userId = GoogleUserId


\* C28: a debounce timer is pending only while autoSync is on and a user is
\* signed in, and it is the timer of that user with autoSync on; so a timer
\* fires, and an automatic save starts, only then.
C28_TimerOnlyWhileEnabled ==
    \A tm \in timers :
        /\ config.autoSync /\ isAuthenticated
        /\ tm.user = user /\ tm.config.autoSync

\* a checklist with a checked item is shown with nobody signed in and
\* autoSync on: no timer is pending
C28_Witness ==
    /\ ~isLoading /\ ~isAuthenticated /\ config.autoSync
    /\ KeysLength(data) > 0
    /\ timers = {}


\* C29: at cold start, before the providers' mount effects have run and so
\* before any sync or load was attempted, the sync status is idle.
C29_ColdStartIdle == isLoading => syncStatus = "idle"

\* the part that holds: no sync or load ever leaves the status idle; indeed
\* nothing sets it
C29_NeverIdle == syncStatus # "idle"


\* a move of the status that the transition diagram allows
Allowed(from, to) ==
    \/ from = to
    \/ to = "syncing"
    \/ from = "syncing" /\ to \in {"synced", "error", "offline"}

\* the statuses a handler assigned, one after the other, starting from the
\* status it found, all follow the diagram
FollowsDiagram(st) ==
    LET seq == <<syncStatus>> \o st.assigned
    IN  \A k \in 1..(Len(seq) - 1) : Allowed(seq[k], seq[k + 1])

\* the step is a run of a handler whose assignments follow the diagram
StepFollowsDiagram ==
    \/ \E now \in Times, outcome \in SetItemOutcomes(quota) :
          /\ SyncNowWith(now, outcome)
          /\ FollowsDiagram(handleSync(Cur, data, config, user, now, outcome))
    \/ \E tm \in timers, now \in Times, outcome \in SetItemOutcomes(quota) :
          /\ SyncTimeoutFiresWith(tm, now, outcome)
          /\ FollowsDiagram(handleSync(Cur, tm.data, tm.config, tm.user, now, outcome))
    \/ \E now \in Times :
          /\ LoadCloudWith(now)
          /\ FollowsDiagram(handleCloudLoad(Cur, config, user, now))
    \/ \E ep \in Endpoints, now \in Times :
          /\ HandleEndpointChangeWith(ep, now)
          /\ FollowsDiagram(handleCloudLoad(Cur, config, user, now))
    \/ \E now \in Times :
          /\ user' # user
          /\ syncStatus' = loadOnMount(Cur, config, user', now).syncStatus
          /\ FollowsDiagram(loadOnMount(Cur, config, user', now))
    \/ \E i \in 1..Len(inflight), resp \in SaveResponses, now \in Times :
          /\ SaveSettlesWith(i, resp, now)
          /\ FollowsDiagram(handleSyncSettled(Cur, resp, now))
    \/ \E i \in 1..Len(inflight), resp \in LoadResponses, now \in Times,
          outcome \in SetItemOutcomes(quota) :
          /\ CloudLoadSettlesWith(i, resp, now, outcome)
          /\ FollowsDiagram(handleCloudLoadSettled(Cur, resp, inflight[i].user, now, outcome))
    \/ \E i \in 1..Len(inflight), resp \in LoadResponses, now \in Times :
          /\ MountLoadSettlesWith(i, resp, now)
          /\ FollowsDiagram(loadOnMountSettled(Cur, resp, now))

\* C30: the status moves only along idle -> syncing -> {synced, error,
\* offline} -> syncing: a step either shows such a move or is a handler whose
\* assignments, taken one by one, are all such moves.
C30_StatusDiagram ==
    [][ Allowed(syncStatus, syncStatus') \/ StepFollowsDiagram ]_vars

\* the part that holds: a handler that starts a sync or a load sets syncing
\* before any other status, so a step that issues a request leaves syncing
C30_RequestMeansSyncing ==
    [][ Len(inflight') > Len(inflight) => syncStatus' = "syncing" ]_vars


\* C31: at most one save or load request is in flight at any time.
C31_OneInFlight == Len(inflight) <= 1


\* the status a save (a manual load) ends with when its fetch settles with resp
SaveOutcome(resp) == IF ResponseOk(resp) THEN "synced" ELSE "error"
LoadOutcome(resp) ==
    IF ~ResponseOk(resp) THEN "error"
    ELSE IF Truthy(resp.data) THEN "synced" ELSE "offline"

\* C32: a completion that arrives after another operation has already
\* settled the status is applied all the same: the status becomes the
\* outcome of the late operation.
C32_StaleCompletionApplied ==
    [][ /\ \A i \in 1..Len(inflight), resp \in SaveResponses, now \in Times :
               (syncStatus # "syncing" /\ SaveSettlesWith(i, resp, now)) =>
                   syncStatus' = SaveOutcome(resp)
        /\ \A i \in 1..Len(inflight), resp \in LoadResponses, now \in Times,
              outcome \in SetItemOutcomes(quota) :
               (syncStatus # "syncing" /\ CloudLoadSettlesWith(i, resp, now, outcome)) =>
                   syncStatus' = LoadOutcome(resp)
      ]_vars

\* a save X is still in flight although the local record already holds a
\* snapshot written after X started, and the status is synced: a sync Y that
\* started later has completed first
C32_Witness ==
    /\ Len(inflight) = 1
    /\ inflight[1].req.kind = "save" /\ inflight[1].user = user
    /\ LocalRecord(localStorage, user) # Stringify(inflight[1].req.data)
    /\ LocalRecord(localStorage, user) = Stringify(data)
    /\ syncStatus = "synced"


\* a fetch settles without success
SettlesFailing ==
    \E i \in 1..Len(inflight), now \in Times :
        \/ \E resp \in SaveResponses : ~ResponseOk(resp) /\ SaveSettlesWith(i, resp, now)
        \/ \E resp \in LoadResponses, outcome \in SetItemOutcomes(quota) :
              ~ResponseOk(resp) /\ CloudLoadSettlesWith(i, resp, now, outcome)
        \/ \E resp \in LoadResponses : ~ResponseOk(resp) /\ MountLoadSettlesWith(i, resp, now)

\* C33: no step issues more than one request, and the step in which a fetch
\* fails issues none and arms no timer: the failed request leaves the fetches
\* in flight and nothing takes its place.
C33_NoAutomaticRetry ==
    [][ /\ Len(inflight') <= Len(inflight) + 1
        /\ SettlesFailing =>
               /\ Len(inflight') = Len(inflight) - 1
               /\ timers' = timers
      ]_vars

\* a save failed on the network and nothing is in flight or scheduled
C33_Witness ==
    /\ isAuthenticated /\ HasToken /\ config.endpoint # ""
    /\ syncStatus = "error" /\ error = NetworkErrorMsg
    /\ inflight = <<>> /\ timers = {}


\* C34: once signIn has fallen back outside the demo host and scheduled its
\* timer, the user becomes authenticated and no sign-in timer is pending any
\* more, with no further action of the user.
C34_SignInFallback == signInTimer ~> (isAuthenticated /\ ~signInTimer)

\* what the code does instead: a step that authenticates the user is the
\* mount effect or a click on Sign In, never the timer, and a scheduled
\* sign-in timer is followed by another for ever
C34_ChainNeverStops ==
    [][ /\ signInTimer => signInTimer'
        /\ (~isAuthenticated /\ isAuthenticated') => (AuthMount \/ SignIn)
      ]_vars


\* C35: the status is syncing only while a request is in flight: when the
\* outstanding call has completed the status is synced, error or offline.
C35_NoDanglingSyncing == syncStatus = "syncing" => inflight # <<>>

\* the part that holds: the completion of a handleSync or of a handleCloudLoad
\* always leaves a settled status, and so does a failed mount-time load
C35_HandlersSettle ==
    [][ \A i \in 1..Len(inflight), now \in Times :
            /\ \A resp \in SaveResponses :
                   SaveSettlesWith(i, resp, now) => syncStatus' = SaveOutcome(resp)
            /\ \A resp \in LoadResponses, outcome \in SetItemOutcomes(quota) :
                   CloudLoadSettlesWith(i, resp, now, outcome) =>
                       syncStatus' = LoadOutcome(resp)
            /\ \A resp \in LoadResponses :
                   (~ResponseOk(resp) /\ MountLoadSettlesWith(i, resp, now)) =>
                       syncStatus' = "offline"
      ]_vars


\* C36: while the status is synced the error message is null and the
\* last-sync timestamp is set.
C36_SyncedClean == syncStatus = "synced" => (error = Null /\ lastSync # Null)

\* the part that holds: the handlers of the sync and load operations set an
\* error message only together with the status error; the import is the one
\* that sets a message and leaves the status alone
C36_OutsideImport ==
    [][ (error' # error /\ error' # Null) =>
            \/ syncStatus' = "error"
            \/ reader # <<>> /\ reader' = <<>>
      ]_vars


\* the step delivers loaded data to the parent: the local read of the
\* load-on-mount effect found a record, or a manual cloud load returned data
DeliversLoadedData ==
    \/ /\ user' # user /\ Truthy(user')
       /\ ~AbsentRecord(localStorage, user')
    \/ \E i \in 1..Len(inflight), d \in RemoteData, now \in Times,
          outcome \in SetItemOutcomes(quota) :
          /\ Truthy(d)
          /\ CloudLoadSettlesWith(i, HttpResponse(200, d), now, outcome)

\* C37: a step that delivers loaded data schedules no save: it arms no
\* debounce timer and issues no save request.
C37_NoEcho ==
    [][ DeliversLoadedData =>
            /\ timers' \subseteq timers
            /\ \A k \in (Len(inflight) + 1)..Len(inflight') : inflight'[k].req.kind # "save"
      ]_vars

\* the part that holds: a save request is issued only by Sync Now and by a
\* firing debounce timer, never in the step that delivers loaded data
C37_SaveSources ==
    [][ (IssuesRequest /\ LastIssued.req.kind = "save") =>
            \/ \E now \in Times, outcome \in SetItemOutcomes(quota) : SyncNowWith(now, outcome)
            \/ \E tm \in timers, now \in Times, outcome \in SetItemOutcomes(quota) :
                  SyncTimeoutFiresWith(tm, now, outcome)
      ]_vars


\* C38: whenever a user is authenticated the google-access-token entry is
\* present.
C38_AuthenticatedHasToken == isAuthenticated => HasToken

\* the part that holds: an identity restored from a Google sign-in has its
\* token, and no step of the session ever stores a token
C38_RestoredHasToken ==
    /\ (isAuthenticated /\ user.id = GoogleUserId) => HasToken
    /\ localStorage[TokenKey] \in {<<>>} \cup {<<x>> : x \in Tokens}

(***************************************************************************)
(* C39: in ChecklistApp the save indicator is `saving` in every state in   *)
(* which a debounced auto-save is pending (the 1 s timer armed and not yet *)
(* fired); a delayed reset from an earlier save never moves the indicator  *)
(* away from `saving` while a later save is pending.  The 2 s timer armed  *)
(* inside the save callback is not cleared by the effect's cleanup, so it  *)
(* sets `idle` under a save armed after it.                                *)
(***************************************************************************)
C39_SavingWhilePending == saveTimeout # <<>> => saveStatus = "saving"

\* what does hold: a toggle shows `saving` and leaves one timer, armed with
\* the checklist the toggle produced
C39_ToggleShowsSaving ==
    [][\A itemId \in ToggleIds :
          ToggleItemWith(itemId) =>
              /\ saveStatus' = "saving"
              /\ saveTimeout' = <<[checklists |-> toggleItem(checklists, itemId),
                                   user |-> user]>>]_vars

\* and the timer that fires writes the latest checklist under the user's key,
\* shows `saved` and arms one reset
C39_SaveWritesLatest ==
    [][\A now \in Times :
          SaveTimeoutFiresWith(now, "ok") =>
              /\ localStorage' = [localStorage EXCEPT ![ChecklistDataKey(user.id)] =
                                     StringifySave(checklists, now)]
              /\ saveStatus' = "saved"
              /\ saveTimeout' = <<>>
              /\ resetTimeouts' = resetTimeouts + 1]_vars

=============================================================================
